---- MODULE Spec2Model ----
(***************************************************************************)
(* A model of the Horde class of the Boids simulation                      *)
(* (src/boids/Utils/boids.py): the four parallel arrays, add_boid and the   *)
(* per-frame update; and of the programs around it: the GIF renderer with  *)
(* its console prompts and its file naming (src/boids/Utils/save2gif.py),  *)
(* the InputBox (src/boids/Utils/input_boxes.py), the live simulation      *)
(* (src/boids/Utils/display.py), the menu (src/boids/main.py) and the loop *)
(* of src/boids/__main__.py.  Each program has its own specification; the  *)
(* variables of the programs that are not running keep their idle values.  *)
(*                                                                         *)
(* Numbers.  The arrays hold float32 values.  A value is modelled as a     *)
(* record: [fin |-> TRUE, n |-> k] is the finite value k / Scale (a fixed   *)
(* point grid), and the three non-finite values of IEEE arithmetic are     *)
(* NaN, PosInf and NegInf.  Sums and differences are exact on the grid;    *)
(* products and quotients round to the nearest grid value, as every        *)
(* float32 operation rounds to the nearest representable value.            *)
(***************************************************************************)
EXTENDS Integers, Sequences, FiniteSets, TLC

\* one Horde: its four arrays and color scheme, the last call made on it and
\* the number of calls so far
VARIABLES positions, velocities, sizes, colors, color, frame, nAdded, nUpdates

\* save2gif: the settings and species dictionaries, the list horde of
\* (subhorde, update_params), the number of the frame being drawn, the index
\* of the species stepped next in it, what was drawn on the screen since it
\* was filled, the list frames, the last statement executed and the place
\* the function is at
VARIABLES settings, species, horde, frame_num, specie_index, screen, frames,
          gif_frame, gif_pc

\* an InputBox and the last event it handled; the names save2gif tries for
\* the animation; the locals of display(), of main() and of __main__
VARIABLES box, box_event, saving, disp, menu, app

hordevars == <<positions, velocities, sizes, colors, color, frame, nAdded, nUpdates>>

gifvars == <<settings, species, horde, frame_num, specie_index, screen, frames,
             gif_frame, gif_pc>>

drivervars == <<box, box_event, saving, disp, menu, app>>

\* everything but the one Horde
appvars == <<gifvars, drivervars>>

vars == <<hordevars, appvars>>

\* ------------------------------------------------------------------ bounds
MaxBoids == 3
MaxUpdates == 2
\* save2gif: the largest fps, length_in_seconds and number of species entered
MaxFps == 2
MaxSeconds == 2
MaxSpecies == 2
\* the longest text typed into an InputBox
MaxText == 4
\* the most animations in the directory when save2gif is called again
MaxFiles == 3

\* ------------------------------------------------------- float32 arithmetic
Scale == 10

F(k) == [fin |-> TRUE, n |-> k]
NaN == [fin |-> FALSE, n |-> 0]
PosInf == [fin |-> FALSE, n |-> 1]
NegInf == [fin |-> FALSE, n |-> -1]

IsNaN(a) == ~a.fin /\ a.n = 0
IsFinite(a) == a.fin

Sign(k) == IF k > 0 THEN 1 ELSE IF k < 0 THEN -1 ELSE 0
Abs(k) == IF k < 0 THEN -k ELSE k

\* a / b rounded to the nearest integer (b # 0), ties away from zero
RoundDiv(a, b) ==
    LET s == Sign(a) * Sign(b)
        q == (2 * Abs(a) + Abs(b)) \div (2 * Abs(b))
    IN  s * q

FNeg(a) == [fin |-> a.fin, n |-> -a.n]

FAdd(a, b) ==
    IF a.fin /\ b.fin THEN F(a.n + b.n)
    ELSE IF IsNaN(a) \/ IsNaN(b) THEN NaN
    ELSE IF a.fin THEN b
    ELSE IF b.fin THEN a
    ELSE IF a.n = b.n THEN a ELSE NaN

FSub(a, b) == FAdd(a, FNeg(b))

FMul(a, b) ==
    IF a.fin /\ b.fin THEN F(RoundDiv(a.n * b.n, Scale))
    ELSE IF IsNaN(a) \/ IsNaN(b) THEN NaN
    ELSE IF Sign(a.n) * Sign(b.n) = 0 THEN NaN
    ELSE [fin |-> FALSE, n |-> Sign(a.n) * Sign(b.n)]

FDiv(a, b) ==
    IF IsNaN(a) \/ IsNaN(b) THEN NaN
    ELSE IF a.fin /\ b.fin
         THEN IF b.n # 0 THEN F(RoundDiv(a.n * Scale, b.n))
              ELSE IF a.n = 0 THEN NaN
              ELSE [fin |-> FALSE, n |-> Sign(a.n)]
    ELSE IF a.fin THEN F(0)
    ELSE IF b.fin THEN [fin |-> FALSE, n |-> a.n * (IF b.n < 0 THEN -1 ELSE 1)]
    ELSE NaN

\* IEEE comparisons: every comparison with NaN is false
FLt(a, b) ==
    /\ ~IsNaN(a)
    /\ ~IsNaN(b)
    /\ IF a.fin /\ b.fin THEN a.n < b.n
       ELSE IF a.fin THEN b.n = 1
       ELSE IF b.fin THEN a.n = -1
       ELSE a.n < b.n

FLe(a, b) ==
    /\ ~IsNaN(a)
    /\ ~IsNaN(b)
    /\ (FLt(a, b) \/ a = b)

FGt(a, b) == FLt(b, a)

\* the largest r >= lo with r * r <= k
RECURSIVE SqrtFloor(_, _)
SqrtFloor(k, r) == IF (r + 1) * (r + 1) > k THEN r ELSE SqrtFloor(k, r + 1)

\* sqrt(k) rounded to the nearest integer; the search starts at lo <= sqrt(k)
SqrtRound(k, lo) ==
    LET r == SqrtFloor(k, lo)
    IN  IF k - r * r > r THEN r + 1 ELSE r

\* a 2-vector is a pair <<x, y>> of values
Vec(x, y) == <<F(x), F(y)>>
VAdd(u, v) == <<FAdd(u[1], v[1]), FAdd(u[2], v[2])>>
VSub(u, v) == <<FSub(u[1], v[1]), FSub(u[2], v[2])>>
VScale(u, a) == <<FMul(u[1], a), FMul(u[2], a)>>
VFinite(u) == u[1].fin /\ u[2].fin
VZero == Vec(0, 0)

\* np.linalg.norm of one row: sqrt(x*x + y*y)
Norm(u) ==
    IF IsNaN(u[1]) \/ IsNaN(u[2]) THEN NaN
    ELSE IF ~VFinite(u) THEN PosInf
    ELSE LET x == Abs(u[1].n)
             y == Abs(u[2].n)
         IN  F(SqrtRound(x * x + y * y, IF x > y THEN x ELSE y))

\* np.sum(rows[mask], axis=0): the rows selected by mask, added in index order
RECURSIVE SumRows(_, _, _)
SumRows(rows, mask, k) ==
    IF k = 0 THEN VZero
    ELSE IF k \in mask THEN VAdd(SumRows(rows, mask, k - 1), rows[k])
    ELSE SumRows(rows, mask, k - 1)

\* np.mean(rows[mask], axis=0): the sum divided by the number of selected
\* rows; over no rows it is 0/0, which numpy returns as NaN
MeanRows(rows, mask) ==
    LET s == SumRows(rows, mask, Len(rows))
        k == F(Cardinality(mask) * Scale)
    IN  <<FDiv(s[1], k), FDiv(s[2], k)>>

\* np.clip(x, lo, hi) = minimum(maximum(x, lo), hi); NaN stays NaN
FClip(x, lo, hi) ==
    IF IsNaN(x) THEN NaN
    ELSE LET m == IF FLt(x, lo) THEN lo ELSE x
         IN  IF FGt(m, hi) THEN hi ELSE m

\* np.clip on integers
Clip(k, lo, hi) == IF k < lo THEN lo ELSE IF k > hi THEN hi ELSE k

\* ------------------------------------------------------------------ Horde
\* the color scheme of the flock of the live simulation; the other schemes
\* and the const schemes are among CtorArgs
ColorTypes == {"green-purple"}

\* the constructor arguments of the color claims: the four documented schemes,
\* const schemes with a component that is not an integer, is missing, or is
\* outside 0..255, and the call Horde() with no argument
CtorArgs ==
    { <<>>, <<"green-purple">>, <<"purple-green">>, <<"black&white">>,
      <<"const 10 20 30">>, <<"const 10 abc 30">>, <<"const 10 20">>,
      <<"const 10 300 30">> }

\* s[i] of a Python string
Char(s, i) == SubSeq(s, i, i)

\* s.startswith(prefix)
StartsWith(s, prefix) ==
    Len(s) >= Len(prefix) /\ SubSeq(s, 1, Len(prefix)) = prefix

\* s.split(): the words of s between runs of spaces; word is the word being
\* read when the scan is at character i
RECURSIVE SplitFrom(_, _, _)
SplitFrom(s, i, word) ==
    IF i > Len(s) THEN (IF word = "" THEN <<>> ELSE <<word>>)
    ELSE IF Char(s, i) = " "
         THEN (IF word = "" THEN <<>> ELSE <<word>>) \o SplitFrom(s, i + 1, "")
         ELSE SplitFrom(s, i + 1, word \o Char(s, i))

Split(s) == SplitFrom(s, 1, "")

Digits == {"0", "1", "2", "3", "4", "5", "6", "7", "8", "9"}

DigitValue(d) ==
    CASE d = "0" -> 0 [] d = "1" -> 1 [] d = "2" -> 2 [] d = "3" -> 3
      [] d = "4" -> 4 [] d = "5" -> 5 [] d = "6" -> 6 [] d = "7" -> 7
      [] d = "8" -> 8 [] d = "9" -> 9

\* the characters of w from position i on are decimal digits, at least one
IsDigits(w, i) == i <= Len(w) /\ \A k \in i..Len(w) : Char(w, k) \in Digits

\* the value of the decimal digits w[i..], read after the value acc
RECURSIVE DigitsValue(_, _, _)
DigitsValue(w, i, acc) ==
    IF i > Len(w) THEN acc
    ELSE DigitsValue(w, i + 1, acc * 10 + DigitValue(Char(w, i)))

\* int(w) returns: w is an optional sign followed by decimal digits
\* (otherwise int raises ValueError)
IsInt(w) ==
    IF Len(w) >= 1 /\ Char(w, 1) \in {"+", "-"} THEN IsDigits(w, 2)
    ELSE IsDigits(w, 1)

\* int(w) for a word with IsInt(w)
IntOf(w) ==
    IF Char(w, 1) = "-" THEN -DigitsValue(w, 2, 0)
    ELSE IF Char(w, 1) = "+" THEN DigitsValue(w, 2, 0)
    ELSE DigitsValue(w, 1, 0)

\* self.color.split()[1:]
ConstWords(c) == Tail(Split(c))

\* r, g, b = [int(x) for x in self.color.split()[1:]] returns: every word is
\* an integer and there are exactly three (otherwise ValueError)
ConstParses(c) ==
    LET words == ConstWords(c)
    IN  /\ \A k \in 1..Len(words) : IsInt(words[k])
        /\ Len(words) = 3

\* [int(x) for x in self.color.split()[1:]] for the const scheme
ConstRGB(c) ==
    LET words == ConstWords(c)
    IN  <<IntOf(words[1]), IntOf(words[2]), IntOf(words[3])>>

\* a value that a uint8 element holds
InByte(v) == 0 <= v /\ v <= 255

\* self.colors[:, k] = v with a Python int v outside 0..255: NumPy 2 raises
\* OverflowError, NumPy 1 stores v modulo 256
OverflowOutcomes(c) ==
    IF StartsWith(c, "const") /\ ConstParses(c)
       /\ \E k \in 1..3 : ~InByte(ConstRGB(c)[k])
    THEN {"raise", "wrap"}
    ELSE {"none"}

default_color == <<10, 150, 10>>

\* Horde.__init__(self, color_type) called with the positional arguments
\* args: four empty arrays and the color scheme.  color_type has no default,
\* so a call without it raises TypeError and there is no Horde.
__init__(args) ==
    /\ positions = <<>>
    /\ velocities = <<>>
    /\ sizes = <<>>
    /\ colors = <<>>
    /\ nAdded = 0
    /\ nUpdates = 0
    /\ IF Len(args) = 1
       THEN /\ color = args[1]
            /\ frame = [op |-> "__init__", args |-> args]
       ELSE /\ color = ""
            /\ frame = [op |-> "raise", call |-> "__init__", args |-> args,
                        exc |-> "TypeError"]

\* no Horde besides those of the list horde
NoHorde ==
    /\ positions = <<>>
    /\ velocities = <<>>
    /\ sizes = <<>>
    /\ colors = <<>>
    /\ color = ""
    /\ frame = [op |-> "none"]
    /\ nAdded = 0
    /\ nUpdates = 0

\* save2gif is not running
NoGif ==
    /\ settings = [fps |-> 0, length_in_seconds |-> 0]
    /\ species = <<>>
    /\ horde = <<>>
    /\ frame_num = 0
    /\ specie_index = 0
    /\ screen = <<>>
    /\ frames = <<>>
    /\ gif_frame = [op |-> "none"]
    /\ gif_pc = "none"

\* no InputBox exists and none of the drivers is running
NoDrivers ==
    /\ box = [op |-> "none"]
    /\ box_event = [op |-> "none"]
    /\ saving = [op |-> "none"]
    /\ disp = [op |-> "none"]
    /\ menu = [op |-> "none"]
    /\ app = [op |-> "none"]

\* only the one Horde exists
OnlyHorde == NoGif /\ NoDrivers

Init == (\E c \in ColorTypes : __init__(<<c>>)) /\ OnlyHorde

\* no exception has propagated out of the Horde's methods: the drivers do not
\* catch any, so an exception ends the program
Running == frame.op # "raise"

\* mutant: the new row replaces the array instead of being stacked under it
VStackOverwrite(array, row) == <<row>>

\* mutant: the new row is stacked on top of the array
VStackFront(array, row) == <<row>> \o array

\* np.vstack((array, row)) / np.append(array, value)
VStack(array, row) == Append(array, row)

\* the boids that the callers add: (position, velocity, size), in grid units
AddInputs ==
    { [position |-> Vec(0, 0),      velocity |-> Vec(10, 0),  size |-> 25],
      [position |-> Vec(30, 40),    velocity |-> Vec(0, 0),   size |-> 60],
      [position |-> Vec(100, -20),  velocity |-> Vec(30, 40), size |-> 10] }

\* Horde.add_boid
add_boid(position, velocity, size) ==
    /\ Running
    /\ Len(positions) < MaxBoids
    /\ positions' = VStack(positions, position)
    /\ velocities' = VStack(velocities, velocity)
    /\ sizes' = VStack(sizes, size)
    /\ colors' = VStack(colors, default_color)
    /\ frame' = [op |-> "add_boid", position |-> position,
                 velocity |-> velocity, size |-> size]
    /\ nAdded' = nAdded + 1
    /\ UNCHANGED <<color, nUpdates>>
    /\ UNCHANGED appvars

\* ---------------------------------------------------------- Horde.update
\* the argument tuples update is called with, in grid units (a factor of 5
\* is 0.5, a distance of 50 is 5.0); edges is (left, right, top, bottom)
Normal == [separation_factor |-> 1, separation_distance |-> 60,
           alignment_factor |-> 5, alignment_distance |-> 50,
           cohesion_factor |-> 1, edge_factor |-> 5,
           top_speed |-> 20, bottom_speed |-> 10,
           edges |-> <<0, 80, 0, 80>>, margin |-> 20]

Configs ==
    { Normal,
      \* no lower speed limit, no edge force
      [Normal EXCEPT !.bottom_speed = 0, !.edge_factor = 0],
      \* both thresholds zero, no lower speed limit, no edge force
      [Normal EXCEPT !.separation_distance = 0, !.alignment_distance = 0,
                     !.bottom_speed = 0, !.top_speed = 1000, !.edge_factor = 0],
      \* malformed: bottom_speed > top_speed
      [Normal EXCEPT !.top_speed = 10, !.bottom_speed = 30] }

\* np.linalg.norm(positions[:, newaxis, :] - positions[newaxis, :, :], axis=-1)
Distances(P) ==
    [i \in 1..Len(P) |-> [j \in 1..Len(P) |-> Norm(VSub(P[i], P[j]))]]

\* mutant: the threshold is inclusive (<=)
WithinInclusive(row, distance) == {j \in 1..Len(row) : FLe(row[j], F(distance))}

\* distances[i] < distance: the boolean mask, as the set of selected indices
Within(row, distance) == {j \in 1..Len(row) : FLt(row[j], F(distance))}

\* mutant: the separation delta is the mean of the offsets, like the other two
SeparationMean(P, i, separation_horde) ==
    MeanRows([j \in 1..Len(P) |-> VSub(P[i], P[j])], separation_horde)

\* np.sum(self.positions[i] - self.positions[separation_horde], axis=0)
SeparationChange(P, i, separation_horde) ==
    SumRows([j \in 1..Len(P) |-> VSub(P[i], P[j])], separation_horde, Len(P))

\* mutant: the boid itself is left out of the mean
AlignmentWithoutSelf(V, i, neighbors_horde) ==
    VSub(MeanRows(V, neighbors_horde \ {i}), V[i])

\* np.mean(self.velocities[neighbors_horde], axis=0) - self.velocities[i]
AlignmentChange(V, i, neighbors_horde) == VSub(MeanRows(V, neighbors_horde), V[i])

\* mutant: the mean position is taken over the other boids only
CohesionWithoutSelf(P, i, neighbors_horde) ==
    VSub(MeanRows(P, neighbors_horde \ {i}), P[i])

\* np.mean(self.positions[neighbors_horde], axis=0) - self.positions[i]
CohesionChange(P, i, neighbors_horde) == VSub(MeanRows(P, neighbors_horde), P[i])

\* self.velocities += separation_change * separation_factor
\*                  + alignment_change * alignment_factor
\*                  + cohesion_change * cohesion_factor
ApplyChanges(V, sep, ali, coh, cfg) ==
    [i \in 1..Len(V) |->
        VAdd(V[i],
             VAdd(VAdd(VScale(sep[i], F(cfg.separation_factor)),
                       VScale(ali[i], F(cfg.alignment_factor))),
                  VScale(coh[i], F(cfg.cohesion_factor))))]

\* mutant: the positions move by the velocities the step started with
IntegrateOldVelocities(P, V) == [i \in 1..Len(P) |-> VAdd(P[i], velocities[i])]

\* self.positions += self.velocities
Integrate(P, V) == [i \in 1..Len(P) |-> VAdd(P[i], V[i])]

\* mutant: the nudges push away from the interior
EdgeForceOutward(x, v, lo, hi, cfg) ==
    LET inner_lo == F(lo + cfg.margin)
        inner_hi == F(hi - cfg.margin)
        v1 == IF FLt(x, inner_lo)
              THEN FSub(v, FMul(F(cfg.edge_factor), FSub(inner_lo, x)))
              ELSE v
    IN  IF FGt(x, inner_hi)
        THEN FAdd(v1, FMul(F(cfg.edge_factor), FSub(x, inner_hi)))
        ELSE v1

\* the edge force on one coordinate x with velocity component v: lo and hi
\* are the two edges of that axis
EdgeForceAxis(x, v, lo, hi, cfg) ==
    LET inner_lo == F(lo + cfg.margin)
        inner_hi == F(hi - cfg.margin)
        v1 == IF FLt(x, inner_lo)
              THEN FAdd(v, FMul(F(cfg.edge_factor), FSub(inner_lo, x)))
              ELSE v
    IN  IF FGt(x, inner_hi)
        THEN FSub(v1, FMul(F(cfg.edge_factor), FSub(x, inner_hi)))
        ELSE v1

\* mutant: the nudges are computed from the positions after the clamp
EdgeForceAfterClamp(P, V, cfg) ==
    [i \in 1..Len(V) |->
        <<EdgeForceAxis(FClip(P[i][1], F(cfg.edges[1]), F(cfg.edges[2])),
                        V[i][1], cfg.edges[1], cfg.edges[2], cfg),
          EdgeForceAxis(FClip(P[i][2], F(cfg.edges[3]), F(cfg.edges[4])),
                        V[i][2], cfg.edges[3], cfg.edges[4], cfg)>>]

\* Edge force: the four nudges, from the integrated (unclamped) positions
EdgeForce(P, V, cfg) ==
    [i \in 1..Len(V) |->
        <<EdgeForceAxis(P[i][1], V[i][1], cfg.edges[1], cfg.edges[2], cfg),
          EdgeForceAxis(P[i][2], V[i][2], cfg.edges[3], cfg.edges[4], cfg)>>]

\* Edge block: np.clip of each coordinate into the rectangle
EdgeBlock(P, cfg) ==
    [i \in 1..Len(P) |->
        <<FClip(P[i][1], F(cfg.edges[1]), F(cfg.edges[2])),
          FClip(P[i][2], F(cfg.edges[3]), F(cfg.edges[4]))>>]

\* speeds = np.linalg.norm(self.velocities, axis=1)
Speeds(V) == [i \in 1..Len(V) |-> Norm(V[i])]

\* one row of velocities[mask] *= limit / speeds[mask]: the quotient of the
\* two float32 values is carried exactly and the product is rounded to the
\* grid; a zero speed gives limit / 0 = inf and 0 * inf = NaN
RescaleRow(v, limit, speed) ==
    IF v[1].fin /\ v[2].fin /\ speed.fin /\ speed.n # 0
    THEN <<F(RoundDiv(v[1].n * limit, speed.n)), F(RoundDiv(v[2].n * limit, speed.n))>>
    ELSE VScale(v, FDiv(F(limit), speed))

\* self.velocities[speeds > top_speed] *= top_speed / speeds[speeds > top_speed]
LimitTop(V, speeds, top_speed) ==
    [i \in 1..Len(V) |->
        IF FGt(speeds[i], F(top_speed)) THEN RescaleRow(V[i], top_speed, speeds[i])
        ELSE V[i]]

\* self.velocities[speeds < bottom_speed] *= bottom_speed / speeds[speeds < bottom_speed]
\* (speeds is the array computed before the top limit was applied)
LimitBottom(V, speeds, bottom_speed) ==
    [i \in 1..Len(V) |->
        IF FLt(speeds[i], F(bottom_speed)) THEN RescaleRow(V[i], bottom_speed, speeds[i])
        ELSE V[i]]

\* mutant: the components wrap around modulo 256 instead of being clipped
BoidColorWrap(c, old, counter, separation_counter) ==
    IF c = "green-purple"
    THEN LET green == (255 - counter * 2) % 256
         IN  <<(separation_counter * 16) % 256, green, (255 - green) % 256>>
    ELSE IF c = "purple-green"
    THEN LET green == (counter * 2) % 256
         IN  <<(255 - separation_counter * 16) % 256, green, green>>
    ELSE IF StartsWith(c, "const")
    THEN IF ConstParses(c)
         THEN LET rgb == ConstRGB(c) IN <<rgb[1] % 256, rgb[2] % 256, rgb[3] % 256>>
         ELSE old
    ELSE IF c = "black&white"
    THEN LET rgb == (counter * 32) % 256 IN <<rgb, rgb, rgb>>
    ELSE old

\* mutant: under green-purple the red component accumulates over the calls
BoidColorAccumulates(c, old, counter, separation_counter) ==
    IF c = "green-purple"
    THEN LET green == Clip(255 - counter * 2, 0, 255)
         IN  <<Clip(old[1] + separation_counter * 16, 0, 255), green,
               Clip(255 - green, 0, 255)>>
    ELSE IF c = "purple-green"
    THEN LET green == Clip(counter * 2, 0, 255)
         IN  <<Clip(255 - separation_counter * 16, 0, 255), green, Clip(green, 0, 255)>>
    ELSE IF StartsWith(c, "const")
    THEN IF ConstParses(c)
         THEN LET rgb == ConstRGB(c) IN <<rgb[1] % 256, rgb[2] % 256, rgb[3] % 256>>
         ELSE old
    ELSE IF c = "black&white"
    THEN LET rgb == Clip(counter * 32, 0, 255) IN <<rgb, rgb, rgb>>
    ELSE old

\* Horde._update_colors: the color of one boid from its two counters
BoidColor(c, old, counter, separation_counter) ==
    IF c = "green-purple"
    THEN LET green == Clip(255 - counter * 2, 0, 255)
         IN  <<Clip(separation_counter * 16, 0, 255), green, Clip(255 - green, 0, 255)>>
    ELSE IF c = "purple-green"
    THEN LET green == Clip(counter * 2, 0, 255)
         IN  <<Clip(255 - separation_counter * 16, 0, 255), green, Clip(green, 0, 255)>>
    ELSE IF StartsWith(c, "const")
    THEN IF ConstParses(c)
         THEN LET rgb == ConstRGB(c) IN <<rgb[1] % 256, rgb[2] % 256, rgb[3] % 256>>
         ELSE old
    ELSE IF c = "black&white"
    THEN LET rgb == Clip(counter * 32, 0, 255) IN <<rgb, rgb, rgb>>
    ELSE old

\* the colors when _update_colors returns
_update_colors(C, c, counters, separation_counters) ==
    [i \in 1..Len(C) |-> BoidColor(c, C[i], counters[i], separation_counters[i])]

\* the exception _update_colors raises, "none" when it returns: ValueError
\* from int() or from unpacking into r, g, b; OverflowError from storing a
\* component outside 0..255 when the build raises on overflow
ColorsException(c, overflow) ==
    IF c = "green-purple" \/ c = "purple-green" \/ ~StartsWith(c, "const")
    THEN "none"
    ELSE IF ~ConstParses(c) THEN "ValueError"
    ELSE IF overflow = "raise" /\ \E k \in 1..3 : ~InByte(ConstRGB(c)[k])
    THEN "OverflowError"
    ELSE "none"

\* the colors _update_colors leaves behind when it raises exc: ValueError is
\* raised before any column is assigned, OverflowError by the first column
\* whose value is outside 0..255, after the columns before it were assigned
ColorsOnRaise(C, c, exc) ==
    IF exc = "OverflowError"
    THEN [i \in 1..Len(C) |->
            [k \in 1..3 |->
                IF \A m \in 1..k : InByte(ConstRGB(c)[m])
                THEN ConstRGB(c)[k] ELSE C[i][k]]]
    ELSE C

\* Horde._update_colors called on its own with the two count arrays
update_colors(counters, separation_counters) ==
    /\ Running
    /\ nUpdates < MaxUpdates
    /\ \E overflow \in OverflowOutcomes(color) :
       \E exc \in {ColorsException(color, overflow)} :
          IF exc = "none"
          THEN /\ colors' = _update_colors(colors, color, counters,
                                           separation_counters)
               /\ frame' = [op |-> "_update_colors", colors |-> colors,
                            alignment_counters |-> counters,
                            separation_counters |-> separation_counters]
          ELSE /\ colors' = ColorsOnRaise(colors, color, exc)
               /\ frame' = [op |-> "raise", call |-> "_update_colors",
                            exc |-> exc, colors |-> colors]
    /\ nUpdates' = nUpdates + 1
    /\ UNCHANGED <<positions, velocities, sizes, color, nAdded>>
    /\ UNCHANGED appvars

\* Horde.update: one frame.  Each local of the method is bound once, in the
\* order the method computes it.
update(cfg) ==
    /\ Running
    /\ nUpdates < MaxUpdates
    /\ \E distances \in {Distances(positions)} :
       \E neighbors_horde \in
            {[i \in 1..Len(positions) |-> Within(distances[i], cfg.alignment_distance)]} :
       \E separation_horde \in
            {[i \in 1..Len(positions) |-> Within(distances[i], cfg.separation_distance)]} :
       \E alignment_counters \in
            {[i \in 1..Len(positions) |-> Cardinality(neighbors_horde[i])]} :
       \E separation_counters \in
            {[i \in 1..Len(positions) |-> Cardinality(separation_horde[i])]} :
       \E separation_change \in
            {[i \in 1..Len(positions) |->
                SeparationChange(positions, i, separation_horde[i])]} :
       \E alignment_change \in
            {[i \in 1..Len(positions) |->
                AlignmentChange(velocities, i, neighbors_horde[i])]} :
       \E cohesion_change \in
            {[i \in 1..Len(positions) |->
                CohesionChange(positions, i, neighbors_horde[i])]} :
       \E v_forces \in
            {ApplyChanges(velocities, separation_change, alignment_change,
                          cohesion_change, cfg)} :
       \E p_moved \in {Integrate(positions, v_forces)} :
       \E v_edge \in {EdgeForce(p_moved, v_forces, cfg)} :
       \E speeds \in {Speeds(v_edge)} :
       \E v_top \in {LimitTop(v_edge, speeds, cfg.top_speed)} :
       \E overflow \in OverflowOutcomes(color) :
       \E exc \in {ColorsException(color, overflow)} :
          /\ velocities' = IF exc = "none"
                           THEN LimitBottom(v_top, speeds, cfg.bottom_speed)
                           ELSE v_forces
          /\ positions' = IF exc = "none" THEN EdgeBlock(p_moved, cfg)
                          ELSE p_moved
          /\ colors' = IF exc = "none"
                       THEN _update_colors(colors, color, alignment_counters,
                                           separation_counters)
                       ELSE ColorsOnRaise(colors, color, exc)
          /\ frame' = [op |-> IF exc = "none" THEN "update" ELSE "raise",
                       call |-> "update", exc |-> exc, cfg |-> cfg,
                       positions |-> positions, velocities |-> velocities,
                       colors |-> colors,
                       distances |-> distances,
                       neighbors_horde |-> neighbors_horde,
                       separation_horde |-> separation_horde,
                       alignment_counters |-> alignment_counters,
                       separation_counters |-> separation_counters,
                       separation_change |-> separation_change,
                       alignment_change |-> alignment_change,
                       cohesion_change |-> cohesion_change,
                       v_forces |-> v_forces, p_moved |-> p_moved,
                       v_edge |-> v_edge, speeds |-> speeds]
    /\ nUpdates' = nUpdates + 1
    /\ UNCHANGED <<sizes, color, nAdded>>
    /\ UNCHANGED appvars

Next ==
    \/ \E b \in AddInputs : add_boid(b.position, b.velocity, b.size)
    \/ \E cfg \in Configs : update(cfg)

Spec == Init /\ [][Next]_vars

\* the constraints on the arguments of a step: weights >= 0, distances > 0,
\* 0 <= bottom_speed <= top_speed, top_speed > 0, margin >= 0
ValidConfig(cfg) ==
    /\ cfg.separation_factor >= 0
    /\ cfg.alignment_factor >= 0
    /\ cfg.cohesion_factor >= 0
    /\ cfg.edge_factor >= 0
    /\ cfg.separation_distance > 0
    /\ cfg.alignment_distance > 0
    /\ cfg.top_speed > 0
    /\ 0 <= cfg.bottom_speed
    /\ cfg.bottom_speed <= cfg.top_speed
    /\ cfg.margin >= 0

\* a horde that is only ever stepped with arguments that satisfy ValidConfig
NextValid ==
    \/ \E b \in AddInputs : add_boid(b.position, b.velocity, b.size)
    \/ \E cfg \in {c \in Configs : ValidConfig(c)} : update(cfg)

SpecValid == Init /\ [][NextValid]_vars

\* -------------------------------------------------- the two-boid scenario
\* the two add_boid calls of the scenario: boids at (0, 0) and (10, 0) with
\* velocities (1, 0) and (-1, 0)
ScenarioInputs ==
    { [position |-> Vec(0, 0),   velocity |-> Vec(10, 0),  size |-> 25],
      [position |-> Vec(100, 0), velocity |-> Vec(-10, 0), size |-> 25] }

\* the arguments of the scenario's update: both distances 20, factors
\* 0.1 / 0.5 / 0.1, no edge force, top_speed 100, bottom_speed 0
ScenarioConfig ==
    [separation_factor |-> 1, separation_distance |-> 200,
     alignment_factor |-> 5, alignment_distance |-> 200,
     cohesion_factor |-> 1, edge_factor |-> 0,
     top_speed |-> 1000, bottom_speed |-> 0,
     edges |-> <<-100, 200, -100, 100>>, margin |-> 20]

NextScenario ==
    \/ \E b \in ScenarioInputs : add_boid(b.position, b.velocity, b.size)
    \/ update(ScenarioConfig)

SpecScenario == Init /\ [][NextScenario]_vars

\* ------------------------------------------------------- the color schemes
\* the <<alignment count, separation count>> every boid is given in a call of
\* _update_colors on its own: counts a small flock has, and counts at which
\* every formula of the schemes leaves 0..255 before it is clipped
CountPairs == {<<3, 5>>, <<130, 140>>}

\* the boids of AddInputs that have a heading
ColorAddInputs == {b \in AddInputs : b.velocity # Vec(0, 0)}

\* a Horde constructed with any of CtorArgs
InitColors == (\E args \in CtorArgs : __init__(args)) /\ OnlyHorde

\* the flock is populated first and then only recolored, by update or by
\* _update_colors on its own
NextColors ==
    \/ \E b \in ColorAddInputs :
          nUpdates = 0 /\ add_boid(b.position, b.velocity, b.size)
    \/ update(Normal)
    \/ \E pair \in CountPairs :
          update_colors([i \in 1..Len(colors) |-> pair[1]],
                        [i \in 1..Len(colors) |-> pair[2]])

SpecColors == InitColors /\ [][NextColors]_vars

\* ------------------------------------------------- save2gif: the rendering
\* a Horde as a value: Horde(color_type) and its add_boid
NewHorde(color_type) ==
    [positions |-> <<>>, velocities |-> <<>>, sizes |-> <<>>, colors |-> <<>>,
     color |-> color_type]

AddBoid(h, position, velocity, size) ==
    [h EXCEPT !.positions = VStack(@, position),
              !.velocities = VStack(@, velocity),
              !.sizes = VStack(@, size),
              !.colors = VStack(@, default_color)]

\* Horde.update on the Horde h: the Horde it leaves behind.  Only the arrays
\* of h and the arguments cfg are read.
HordeStep(h, cfg) ==
    LET n == Len(h.positions)
        distances == Distances(h.positions)
        neighbors_horde == [i \in 1..n |-> Within(distances[i], cfg.alignment_distance)]
        separation_horde == [i \in 1..n |-> Within(distances[i], cfg.separation_distance)]
        separation_change ==
            [i \in 1..n |-> SeparationChange(h.positions, i, separation_horde[i])]
        alignment_change ==
            [i \in 1..n |-> AlignmentChange(h.velocities, i, neighbors_horde[i])]
        cohesion_change ==
            [i \in 1..n |-> CohesionChange(h.positions, i, neighbors_horde[i])]
        v_forces == ApplyChanges(h.velocities, separation_change, alignment_change,
                                 cohesion_change, cfg)
        p_moved == Integrate(h.positions, v_forces)
        v_edge == EdgeForce(p_moved, v_forces, cfg)
        speeds == Speeds(v_edge)
    IN  [h EXCEPT
           !.positions = EdgeBlock(p_moved, cfg),
           !.velocities = LimitBottom(LimitTop(v_edge, speeds, cfg.top_speed),
                                      speeds, cfg.bottom_speed),
           !.colors = _update_colors(h.colors, h.color,
                          [i \in 1..n |-> Cardinality(neighbors_horde[i])],
                          [i \in 1..n |-> Cardinality(separation_horde[i])])]

\* the species dictionaries get_user_settings returns, in grid units: a
\* species whose boids see one another at 5 and 6, and one with a short range
SpecieInputs ==
    { [boid_color |-> "green-purple", boids_per_source |-> 2, boid_size |-> 25,
       boid_min_speed |-> 10, boid_max_speed |-> 20,
       separation_factor |-> 1, separation_distance |-> 60,
       alignment_factor |-> 5, alignment_distance |-> 50,
       cohesion_factor |-> 1, edge_factor |-> 5, edge_margin |-> 20],
      [boid_color |-> "black&white", boids_per_source |-> 1, boid_size |-> 10,
       boid_min_speed |-> 10, boid_max_speed |-> 30,
       separation_factor |-> 2, separation_distance |-> 30,
       alignment_factor |-> 1, alignment_distance |-> 20,
       cohesion_factor |-> 1, edge_factor |-> 5, edge_margin |-> 10] }

\* settings["resolution"], in grid units
RES == <<80, 80>>

\* EDGES = (0, RES[0], 0, RES[1])
EDGES == <<0, RES[1], 0, RES[2]>>

\* the tuple (SEP_F, SEP_D, ALI_F, ALI_D, COH_F, EDGE_F, MAX_S, MIN_S, EDGES,
\* MARGIN) stored with the subhorde of a species
UpdateParams(specie) ==
    [separation_factor |-> specie.separation_factor,
     separation_distance |-> specie.separation_distance,
     alignment_factor |-> specie.alignment_factor,
     alignment_distance |-> specie.alignment_distance,
     cohesion_factor |-> specie.cohesion_factor,
     edge_factor |-> specie.edge_factor,
     top_speed |-> specie.boid_max_speed,
     bottom_speed |-> specie.boid_min_speed,
     edges |-> EDGES, margin |-> specie.edge_margin]

\* the places random.randint draws a source at, and the velocities
\* random.randrange draws for the first and the second boid of a source
SourceCoords == {Vec(30, 40), Vec(40, 40)}
SourceVelocities == <<Vec(10, 0), Vec(-10, 10)>>

\* mutant: the animation is one second long whatever length_in_seconds is
OneSecondDuration == settings.fps

\* settings["length_in_seconds"] * settings["fps"]
ANIMATION_DURATION == settings.length_in_seconds * settings.fps

\* save2gif after get_user_settings returned (settings, species)
InitRender ==
    /\ \E fps \in 1..MaxFps, len \in 1..MaxSeconds :
          settings = [fps |-> fps, length_in_seconds |-> len]
    /\ \E n \in 1..MaxSpecies : species \in [1..n -> SpecieInputs]
    /\ horde = <<>>
    /\ frame_num = 0
    /\ specie_index = 0
    /\ screen = <<>>
    /\ frames = <<>>
    /\ gif_frame = [op |-> "get_user_settings"]
    /\ gif_pc = "create"
    /\ NoHorde
    /\ NoDrivers

\* the subhorde of a species with one source at coord: a boid per velocity
RECURSIVE Populate(_, _, _, _)
Populate(h, coord, vs, size) ==
    IF vs = <<>> THEN h
    ELSE Populate(AddBoid(h, coord, Head(vs), size), coord, Tail(vs), size)

\* one turn of "for specie in species": a Horde is made, populated from one
\* source and appended to horde with its parameters
create_subhorde ==
    /\ gif_pc = "create"
    /\ Len(horde) < Len(species)
    /\ LET specie == species[Len(horde) + 1]
       IN  \E coord \in SourceCoords :
           \E vs \in {SubSeq(SourceVelocities, 1, specie.boids_per_source)} :
              /\ horde' = Append(horde,
                    [subhorde |-> Populate(NewHorde(specie.boid_color), coord, vs,
                                           specie.boid_size),
                     update_params |-> UpdateParams(specie)])
              /\ gif_frame' = [op |-> "append", horde |-> horde]
    /\ UNCHANGED <<settings, species, frame_num, specie_index, screen, frames, gif_pc>>
    /\ UNCHANGED <<hordevars, drivervars>>

\* the head of "for frame_num in range(1, ANIMATION_DURATION + 1)": the next
\* frame starts with the screen filled, or the loop ends
next_frame ==
    /\ gif_pc \in {"create", "frame"}
    /\ Len(horde) = Len(species)
    /\ IF frame_num < ANIMATION_DURATION
       THEN /\ frame_num' = frame_num + 1
            /\ specie_index' = 1
            /\ screen' = <<>>
            /\ gif_pc' = "species"
       ELSE /\ gif_pc' = "rendered"
            /\ UNCHANGED <<frame_num, specie_index, screen>>
    /\ gif_frame' = [op |-> "for frame_num"]
    /\ UNCHANGED <<settings, species, horde, frames>>
    /\ UNCHANGED <<hordevars, drivervars>>

\* mutant: updating one subhorde steps every subhorde of the list
UpdateEverySubhorde(hs, k) ==
    [j \in 1..Len(hs) |->
        [hs[j] EXCEPT !.subhorde = HordeStep(@, hs[j].update_params)]]

\* the list horde after subhorde.update(*update_params) on its k-th entry
UpdateSubhorde(hs, k) ==
    [hs EXCEPT ![k].subhorde = HordeStep(@, hs[k].update_params)]

\* one turn of "for subhorde, update_params in horde": the subhorde is
\* updated and then drawn on the screen
update_and_draw ==
    /\ gif_pc = "species"
    /\ specie_index <= Len(horde)
    /\ horde' = UpdateSubhorde(horde, specie_index)
    /\ screen' = Append(screen, [specie |-> specie_index,
                                 update_params |-> horde[specie_index].update_params,
                                 drawn |-> horde'[specie_index].subhorde])
    /\ specie_index' = specie_index + 1
    /\ gif_frame' = [op |-> "update", specie |-> specie_index, horde |-> horde]
    /\ UNCHANGED <<settings, species, frame_num, frames, gif_pc>>
    /\ UNCHANGED <<hordevars, drivervars>>

\* frames.append(...): the screen is captured after the last species
append_frame ==
    /\ gif_pc = "species"
    /\ specie_index > Len(horde)
    /\ frames' = Append(frames, screen)
    /\ gif_pc' = "frame"
    /\ gif_frame' = [op |-> "frames.append"]
    /\ UNCHANGED <<settings, species, horde, frame_num, specie_index, screen>>
    /\ UNCHANGED <<hordevars, drivervars>>

NextRender ==
    \/ create_subhorde
    \/ next_frame
    \/ update_and_draw
    \/ append_frame

SpecRender == InitRender /\ [][NextRender]_vars

\* ------------------------------------------------------- get_user_settings
\* factors are kept in thousandths: 0.005 is 5
Milli == 1000

settings_default ==
    [fps |-> 24, length_in_seconds |-> 3, resolution |-> <<1280, 720>>,
     background_color |-> "black", number_of_species |-> 1]

specie_default ==
    [number_of_sources |-> 5, boids_per_source |-> 10, boid_size |-> 25,
     boid_min_speed |-> 1, boid_max_speed |-> 5,
     separation_factor |-> 5, separation_distance |-> 60,
     alignment_factor |-> 60, alignment_distance |-> 90,
     cohesion_factor |-> 5, edge_factor |-> 5, edge_margin |-> 100,
     boid_color |-> "green-purple"]

\* w without its sign
Unsigned(w) ==
    IF Len(w) >= 1 /\ Char(w, 1) \in {"+", "-"} THEN SubSeq(w, 2, Len(w)) ELSE w

\* the position of the first "." of u, 0 when there is none
DotAt(u) ==
    IF \E k \in 1..Len(u) : Char(u, k) = "."
    THEN CHOOSE k \in 1..Len(u) :
            Char(u, k) = "." /\ \A j \in 1..(k - 1) : Char(u, j) # "."
    ELSE 0

RECURSIVE Pow10(_)
Pow10(k) == IF k = 0 THEN 1 ELSE 10 * Pow10(k - 1)

\* float(w) returns: an optional sign, digits, and optionally a point and
\* digits, with a digit on one side of the point at least (otherwise float
\* raises ValueError)
IsFloat(w) ==
    LET u == Unsigned(w)
        d == DotAt(u)
        whole == IF d = 0 THEN u ELSE SubSeq(u, 1, d - 1)
        frac == IF d = 0 THEN "" ELSE SubSeq(u, d + 1, Len(u))
    IN  /\ whole = "" \/ IsDigits(whole, 1)
        /\ frac = "" \/ IsDigits(frac, 1)
        /\ whole # "" \/ frac # ""

\* float(w) for a word with IsFloat(w) and places decimals at most, in
\* units of 10^-places
FloatAt(w, places) ==
    LET u == Unsigned(w)
        d == DotAt(u)
        whole == IF d = 0 THEN u ELSE SubSeq(u, 1, d - 1)
        frac == IF d = 0 THEN "" ELSE SubSeq(u, d + 1, Len(u))
        magnitude == DigitsValue(whole, 1, 0) * Pow10(places)
                     + DigitsValue(frac, 1, 0) * Pow10(places - Len(frac))
    IN  IF Char(w, 1) = "-" THEN -magnitude ELSE magnitude

\* float(w) in thousandths; what is typed for a factor has three decimals
\* at most
FloatOf(w) == FloatAt(w, 3)

\* an integer setting after its prompt: Enter keeps the current value, an
\* integer of at least least is taken, anything else gives the default
IntSetting(input_value, current, default, least) ==
    IF input_value = "" THEN current
    ELSE IF IsInt(input_value) /\ IntOf(input_value) >= least
         THEN IntOf(input_value)
         ELSE default

\* a factor after its prompt: Enter keeps the current value, a number below 1
\* is taken, anything else gives the default
FactorSetting(input_value, current, default) ==
    IF input_value = "" THEN current
    ELSE IF IsFloat(input_value) /\ FloatOf(input_value) < Milli
         THEN FloatOf(input_value)
         ELSE default

\* settings["resolution"] after its two prompts; an invalid height assigns
\* new_w = default[0] and leaves new_h as it was
ResolutionSetting(input_value_w, input_value_h, current, default) ==
    LET new_w == IntSetting(input_value_w, current[1], default[1], 100)
    IN  IF input_value_h = "" THEN <<new_w, current[2]>>
        ELSE IF IsInt(input_value_h) /\ IntOf(input_value_h) >= 100
             THEN <<new_w, IntOf(input_value_h)>>
             ELSE <<default[1], current[2]>>

\* the color names pygame.Color accepts, of those typed
ColorNames == {"black", "white"}

\* the three answers to the red, green and blue prompts are integers
RGBParses(rgb) == \A i \in 1..3 : IsInt(rgb[i])

\* the list rgb after the range check: a value outside 0..255 becomes 0
RGBChecked(rgb) ==
    [i \in 1..3 |-> IF InByte(IntOf(rgb[i])) THEN IntOf(rgb[i]) ELSE 0]

\* what is typed at the prompts of the general parameters
NoAnswer ==
    [fps |-> "", length_in_seconds |-> "", resolution_w |-> "",
     resolution_h |-> "", background_color |-> "", rgb |-> <<"", "", "">>,
     number_of_species |-> ""]

GeneralTyped ==
    { NoAnswer,
      [NoAnswer EXCEPT !.fps = "12", !.length_in_seconds = "x",
                       !.resolution_w = "200", !.resolution_h = "300"],
      [NoAnswer EXCEPT !.fps = "0", !.resolution_w = "200",
                       !.resolution_h = "50"],
      [NoAnswer EXCEPT !.resolution_h = "abc"],
      [NoAnswer EXCEPT !.resolution_w = "50", !.background_color = "white"],
      [NoAnswer EXCEPT !.background_color = "nocolor"],
      [NoAnswer EXCEPT !.background_color = "rgb", !.rgb = <<"10", "300", "30">>],
      [NoAnswer EXCEPT !.background_color = "rgb", !.rgb = <<"10", "x", "30">>],
      [NoAnswer EXCEPT !.number_of_species = "x"] }
    \cup { [NoAnswer EXCEPT !.number_of_species = ToString(n)] :
             n \in 0..MaxSpecies }

\* the background prompt ends in TypeError: after the bare except rgb is the
\* string "black", whose characters are compared with 0
BackgroundRaises(typed) ==
    typed.background_color = "rgb" /\ ~RGBParses(typed.rgb)

\* settings after the prompts of the general parameters, in the order of
\* the keys of settings_default; number_of_species is asked last, so it is
\* not reached when the background prompt raises
GeneralSettings(current, typed) ==
    [fps |-> IntSetting(typed.fps, current.fps, settings_default.fps, 1),
     length_in_seconds |->
         IntSetting(typed.length_in_seconds, current.length_in_seconds,
                    settings_default.length_in_seconds, 1),
     resolution |->
         ResolutionSetting(typed.resolution_w, typed.resolution_h,
                           current.resolution, settings_default.resolution),
     background_color |->
         IF typed.background_color = "" \/ BackgroundRaises(typed)
         THEN current.background_color
         ELSE IF typed.background_color = "rgb" THEN RGBChecked(typed.rgb)
         ELSE IF typed.background_color \in ColorNames
              THEN typed.background_color
              ELSE settings_default.background_color,
     number_of_species |->
         IF BackgroundRaises(typed) THEN current.number_of_species
         ELSE IntSetting(typed.number_of_species, current.number_of_species,
                         settings_default.number_of_species, 1)]

\* what is typed at the prompts of one species
NoSpecieAnswer == [key \in DOMAIN specie_default |-> ""]

SpecieTyped ==
    { NoSpecieAnswer,
      [NoSpecieAnswer EXCEPT
          !.number_of_sources = "2", !.boids_per_source = "0",
          !.boid_size = "x", !.boid_min_speed = "9",
          !.separation_factor = "-0.5", !.separation_distance = "5",
          !.alignment_factor = "0.5", !.alignment_distance = "40",
          !.cohesion_factor = "2", !.edge_factor = "abc",
          !.edge_margin = "0", !.boid_color = "const 10 300 30"],
      [NoSpecieAnswer EXCEPT
          !.boid_max_speed = "8", !.boid_color = "const 10 abc 30"],
      [NoSpecieAnswer EXCEPT
          !.boid_color = "const 10 20"] }

\* the exception the boid_color prompt ends in, "" when it ends in none:
\* after the bare except rgb is the string default, whose characters are
\* compared with 0 (TypeError); fewer than three values leave no rgb[2]
\* (IndexError)
BoidColorRaises(input_value) ==
    IF input_value \in {"green-purple", "purple-green", "black&white"}
       \/ ~StartsWith(input_value, "const")
    THEN ""
    ELSE LET words == Tail(Split(input_value))
         IN  IF \E i \in 1..Len(words) : ~IsInt(words[i]) THEN "TypeError"
             ELSE IF Len(words) < 3 THEN "IndexError"
             ELSE ""

\* species[i]["boid_color"] after its prompt, when the prompt raises nothing
BoidColorSetting(input_value, current) ==
    IF input_value \in {"green-purple", "purple-green", "black&white"}
    THEN input_value
    ELSE IF StartsWith(input_value, "const")
         THEN LET words == Tail(Split(input_value))
                  rgb == [i \in 1..3 |->
                            IF InByte(IntOf(words[i])) THEN IntOf(words[i])
                            ELSE 0]
              IN  "const " \o ToString(rgb[1]) \o " " \o ToString(rgb[2])
                  \o " " \o ToString(rgb[3])
         ELSE current

\* one species dictionary after its thirteen prompts; default is the value
\* the dictionary holds (the species were just rebuilt from specie_default)
SpecieSettings(current, typed) ==
    [number_of_sources |->
         IntSetting(typed.number_of_sources, current.number_of_sources,
                    current.number_of_sources, 1),
     boids_per_source |->
         IntSetting(typed.boids_per_source, current.boids_per_source,
                    current.boids_per_source, 1),
     boid_size |->
         IntSetting(typed.boid_size, current.boid_size, current.boid_size, 10),
     boid_min_speed |->
         IntSetting(typed.boid_min_speed, current.boid_min_speed,
                    current.boid_min_speed, 1),
     boid_max_speed |->
         IntSetting(typed.boid_max_speed, current.boid_max_speed,
                    current.boid_max_speed, 1),
     separation_factor |->
         FactorSetting(typed.separation_factor, current.separation_factor,
                       current.separation_factor),
     separation_distance |->
         IntSetting(typed.separation_distance, current.separation_distance,
                    current.separation_distance, 10),
     alignment_factor |->
         FactorSetting(typed.alignment_factor, current.alignment_factor,
                       current.alignment_factor),
     alignment_distance |->
         IntSetting(typed.alignment_distance, current.alignment_distance,
                    current.alignment_distance, 10),
     cohesion_factor |->
         FactorSetting(typed.cohesion_factor, current.cohesion_factor,
                       current.cohesion_factor),
     edge_factor |->
         FactorSetting(typed.edge_factor, current.edge_factor,
                       current.edge_factor),
     edge_margin |->
         IntSetting(typed.edge_margin, current.edge_margin,
                    current.edge_margin, 10),
     boid_color |->
         IF BoidColorRaises(typed.boid_color) # "" THEN current.boid_color
         ELSE BoidColorSetting(typed.boid_color, current.boid_color)]

\* the dictionaries the prompts of one species can leave, by what is typed
SpecieAnswers == [typed \in SpecieTyped |-> SpecieSettings(specie_default, typed)]

\* the species whose boid_color prompt raises, by what is typed
SpecieRaises == [typed \in SpecieTyped |-> BoidColorRaises(typed.boid_color)]

\* get_user_settings is entered: both dictionaries hold the defaults
InitSettings ==
    /\ settings = settings_default
    /\ species = <<specie_default>>
    /\ horde = <<>>
    /\ frame_num = 0
    /\ specie_index = 0
    /\ screen = <<>>
    /\ frames = <<>>
    /\ gif_frame = [op |-> "get_user_settings"]
    /\ gif_pc = "ask"
    /\ NoHorde
    /\ NoDrivers

\* the first species whose prompts raise, 0 when none does
FirstRaising(typed_species) ==
    IF \E i \in 1..Len(typed_species) : SpecieRaises[typed_species[i]] # ""
    THEN CHOOSE i \in 1..Len(typed_species) :
            /\ SpecieRaises[typed_species[i]] # ""
            /\ \A j \in 1..(i - 1) : SpecieRaises[typed_species[j]] = ""
    ELSE 0

\* [C]: input_settings asks for the general parameters, rebuilds species as
\* number_of_species copies of specie_default and asks for every species
input_settings ==
    /\ gif_pc = "ask"
    /\ \E typed \in GeneralTyped :
          LET general == GeneralSettings(settings, typed)
              asked == [op |-> "input_settings",
                        resolution |-> settings.resolution,
                        input_value_w |-> typed.resolution_w,
                        input_value_h |-> typed.resolution_h]
          IN  /\ settings' = general
              /\ IF BackgroundRaises(typed)
                 THEN /\ species' = species
                      /\ gif_pc' = "raise"
                      /\ gif_frame' = [asked EXCEPT !.op = "raise"]
                 ELSE \E typed_species \in
                            [1..general.number_of_species -> SpecieTyped] :
                         LET r == FirstRaising(typed_species)
                         IN  /\ species' =
                                   [i \in 1..general.number_of_species |->
                                      IF r = 0 \/ i <= r
                                      THEN SpecieAnswers[typed_species[i]]
                                      ELSE specie_default]
                             /\ gif_pc' = IF r = 0 THEN "ask" ELSE "raise"
                             /\ gif_frame' =
                                   IF r = 0 THEN asked
                                   ELSE [asked EXCEPT !.op = "raise"]
    /\ UNCHANGED <<horde, frame_num, specie_index, screen, frames>>
    /\ UNCHANGED <<hordevars, drivervars>>

\* [D]: both dictionaries are set back to the defaults
set_default ==
    /\ gif_pc = "ask"
    /\ settings' = settings_default
    /\ species' = <<specie_default>>
    /\ gif_frame' = [op |-> "default"]
    /\ UNCHANGED <<horde, frame_num, specie_index, screen, frames, gif_pc>>
    /\ UNCHANGED <<hordevars, drivervars>>

\* [H]: display_help asks until the answer is [P] (back to the question) or
\* [M] (get_user_settings returns None)
display_help ==
    /\ gif_pc = "ask"
    /\ \E ans \in {"p", "m"} :
          /\ gif_pc' = IF ans = "m" THEN "return None" ELSE "ask"
          /\ gif_frame' = [op |-> "display_help", ans |-> ans]
    /\ UNCHANGED <<settings, species, horde, frame_num, specie_index, screen,
                   frames>>
    /\ UNCHANGED <<hordevars, drivervars>>

\* [E]: get_user_settings returns None
exit_settings ==
    /\ gif_pc = "ask"
    /\ gif_pc' = "return None"
    /\ gif_frame' = [op |-> "exit"]
    /\ UNCHANGED <<settings, species, horde, frame_num, specie_index, screen,
                   frames>>
    /\ UNCHANGED <<hordevars, drivervars>>

\* [G]: the loop is left and (settings, species) returned
generate ==
    /\ gif_pc = "ask"
    /\ gif_pc' = "return"
    /\ gif_frame' = [op |-> "generate"]
    /\ UNCHANGED <<settings, species, horde, frame_num, specie_index, screen,
                   frames>>
    /\ UNCHANGED <<hordevars, drivervars>>

NextSettings ==
    \/ input_settings
    \/ set_default
    \/ display_help
    \/ exit_settings
    \/ generate

SpecSettings == InitSettings /\ [][NextSettings]_vars

\* ---------------------------------------------------------------- InputBox
\* a float of an InputBox is kept in units of 10^-Places: a text of MaxText
\* characters has MaxText - 1 decimals at most
Places == MaxText - 1

\* the Python number written lit: an int when lit has no point
Number(lit) ==
    [type |-> IF DotAt(lit) = 0 THEN "int" ELSE "float",
     n |-> FloatAt(lit, Places)]

\* the digits of the fraction f of k decimals, without trailing zeros
RECURSIVE FracDigits(_, _)
FracDigits(f, k) ==
    IF f = 0 THEN ""
    ELSE ToString(f \div Pow10(k - 1)) \o FracDigits(f % Pow10(k - 1), k - 1)

\* str(val): an int prints its digits, a float its shortest decimal, with
\* one decimal at least (the values met lie between 1e-4 and 1e16, where
\* Python uses no exponent)
Str(val) ==
    LET magnitude == IF val.n < 0 THEN -val.n ELSE val.n
        whole == ToString(magnitude \div Pow10(Places))
        frac == FracDigits(magnitude % Pow10(Places), Places)
        sign == IF val.n < 0 THEN "-" ELSE ""
    IN  IF val.type = "int" THEN sign \o whole
        ELSE sign \o whole \o "." \o (IF frac = "" THEN "0" ELSE frac)

\* pygame.Rect(x, y, w, h).collidepoint(pos)
collidepoint(rect, pos) ==
    /\ rect.x <= pos[1] /\ pos[1] < rect.x + rect.w
    /\ rect.y <= pos[2] /\ pos[2] < rect.y + rect.h

\* InputBox(initial_value, x, y) with the default size and colors
InputBox(initial_value, x, y) ==
    [val |-> initial_value,
     rect |-> [x |-> x, y |-> y, w |-> 400, h |-> 50],
     a_color |-> <<10, 10, 200>>,
     i_color |-> <<30, 30, 100>>,
     color |-> <<30, 30, 100>>,
     text |-> Str(initial_value),
     active |-> FALSE]

\* mutant: a click leaves the color as it was
MouseButtonDownKeepsColor(b, event) ==
    [b EXCEPT !.active = IF collidepoint(b.rect, event.pos) THEN ~b.active
                         ELSE FALSE]

\* handle_event, MOUSEBUTTONDOWN of any button
MouseButtonDown(b, event) ==
    LET active == IF collidepoint(b.rect, event.pos) THEN ~b.active ELSE FALSE
    IN  [b EXCEPT !.active = active,
                  !.color = IF active THEN b.a_color ELSE b.i_color]

\* mutant: Enter takes the number and leaves the rejected text
ReturnKeepsText(b) ==
    IF IsFloat(b.text)
    THEN [b EXCEPT !.val = [type |-> "float", n |-> FloatAt(b.text, Places)],
                   !.active = FALSE, !.color = b.i_color]
    ELSE b

\* handle_event, K_RETURN while active: float(self.text) is taken, or the
\* bare except puts str(self.val) back
Return(b) ==
    IF IsFloat(b.text)
    THEN [b EXCEPT !.val = [type |-> "float", n |-> FloatAt(b.text, Places)],
                   !.active = FALSE, !.color = b.i_color]
    ELSE [b EXCEPT !.text = Str(b.val)]

\* handle_event, KEYDOWN
KeyDown(b, event) ==
    IF ~b.active THEN b
    ELSE IF event.key = "K_RETURN" THEN Return(b)
    ELSE IF event.key = "K_BACKSPACE"
         THEN [b EXCEPT !.text = SubSeq(b.text, 1, Len(b.text) - 1)]
         ELSE [b EXCEPT !.text = b.text \o event.unicode]

\* InputBox.handle_event
HandleEvent(b, event) ==
    IF event.type = "MOUSEBUTTONDOWN" THEN MouseButtonDown(b, event)
    ELSE IF event.type = "KEYDOWN" THEN KeyDown(b, event)
    ELSE b

\* clicks with the left button on the first pixel of the first box of
\* display(), on the last pixel of the second, just past the right edge of
\* the first and on the settings icon; clicks with the right button on the
\* two pixels inside a box
Clicks ==
    { [pos |-> <<1450, 120>>, button |-> 1], [pos |-> <<1849, 269>>, button |-> 1],
      [pos |-> <<1850, 150>>, button |-> 1], [pos |-> <<1835, 85>>, button |-> 1],
      [pos |-> <<1450, 120>>, button |-> 3], [pos |-> <<1849, 269>>, button |-> 3] }

\* the keys pressed: Enter, Backspace (its character written as an escape),
\* a digit, the point, and Shift, which has no character
Keys ==
    { [key |-> "K_RETURN", unicode |-> "\r"],
      [key |-> "K_BACKSPACE", unicode |-> "\\x08"],
      [key |-> "K_5", unicode |-> "5"],
      [key |-> "K_PERIOD", unicode |-> "."],
      [key |-> "K_LSHIFT", unicode |-> ""] }

\* the events pygame.event.get() delivers
Events ==
    { [type |-> "MOUSEBUTTONDOWN", pos |-> c.pos, button |-> c.button] :
        c \in Clicks }
    \cup { [type |-> "KEYDOWN", key |-> k.key, unicode |-> k.unicode] : k \in Keys }
    \cup { [type |-> "MOUSEMOTION", pos |-> pos] : pos \in {<<1600, 140>>} }

\* one of the first two boxes of display() was constructed
InitInputBox ==
    /\ box \in { InputBox(Number("0.02"), 1450, 120),
                 InputBox(Number("20"), 1450, 220) }
    /\ box_event = [op |-> "__init__"]
    /\ saving = [op |-> "none"]
    /\ disp = [op |-> "none"]
    /\ menu = [op |-> "none"]
    /\ app = [op |-> "none"]
    /\ NoHorde
    /\ NoGif

\* box.handle_event(event); texts are typed up to MaxText characters
handle_event ==
    /\ \E event \in Events :
          /\ (event.type = "KEYDOWN" /\ box.active
                /\ event.key \notin {"K_RETURN", "K_BACKSPACE"})
             => Len(box.text) + Len(event.unicode) <= MaxText
          /\ box' = HandleEvent(box, event)
          /\ box_event' = [op |-> "handle_event", event |-> event, self |-> box]
    /\ UNCHANGED <<saving, disp, menu, app>>
    /\ UNCHANGED <<hordevars, gifvars>>

NextInputBox == handle_event

SpecInputBox == InitInputBox /\ [][NextInputBox]_vars

\* ----------------------------------------------------- naming the animation
\* f"{boids_total}_boids_{number_of_species}_species_{length}s_animation.gif"
FirstName(boids_total, number_of_species, length_in_seconds) ==
    ToString(boids_total) \o "_boids_" \o ToString(number_of_species)
    \o "_species_" \o ToString(length_in_seconds) \o "s_animation.gif"

\* f"{boids_total}_boids_{length}s_animation({counter}).gif"
EnumeratedName(boids_total, length_in_seconds, counter) ==
    ToString(boids_total) \o "_boids_" \o ToString(length_in_seconds)
    \o "s_animation(" \o ToString(counter) \o ").gif"

\* boids_total of number_of_species default species: 5 sources of 10 boids
BoidsTotal(number_of_species) ==
    number_of_species * specie_default.number_of_sources
                      * specie_default.boids_per_source

\* the animations that may lie in the directory before the first call
OldAnimations ==
    { FirstName(BoidsTotal(1), 1, settings_default.length_in_seconds),
      EnumeratedName(BoidsTotal(1), settings_default.length_in_seconds, 1),
      EnumeratedName(BoidsTotal(1), settings_default.length_in_seconds, 2),
      EnumeratedName(BoidsTotal(2), settings_default.length_in_seconds, 1) }

\* save2gif has rendered the frames of number_of_species species
Rendered(files, number_of_species) ==
    [pc |-> "name", files |-> files, name |-> "", counter |-> 0,
     number_of_species |-> number_of_species,
     length_in_seconds |-> settings_default.length_in_seconds,
     boids_total |-> BoidsTotal(number_of_species),
     overwritten |-> {}]

InitSaving ==
    /\ \E files \in SUBSET OldAnimations, n \in 1..MaxSpecies :
          Cardinality(files) <= MaxFiles /\ saving = Rendered(files, n)
    /\ box = [op |-> "none"]
    /\ box_event = [op |-> "none"]
    /\ disp = [op |-> "none"]
    /\ menu = [op |-> "none"]
    /\ app = [op |-> "none"]
    /\ NoHorde
    /\ NoGif

\* name = ...; counter = 1
name_image ==
    /\ saving.pc = "name"
    /\ saving' = [saving EXCEPT
          !.name = FirstName(saving.boids_total, saving.number_of_species,
                             saving.length_in_seconds),
          !.counter = 1,
          !.pc = "while"]
    /\ UNCHANGED <<box, box_event, disp, menu, app>>
    /\ UNCHANGED <<hordevars, gifvars>>

\* one turn of "while os.path.exists(name)"
numerate_image ==
    /\ saving.pc = "while"
    /\ saving.name \in saving.files
    /\ saving' = [saving EXCEPT
          !.name = EnumeratedName(saving.boids_total, saving.length_in_seconds,
                                  saving.counter),
          !.counter = saving.counter + 1]
    /\ UNCHANGED <<box, box_event, disp, menu, app>>
    /\ UNCHANGED <<hordevars, gifvars>>

\* mutant: the file is written whether the name is taken or not
save_unchecked ==
    /\ saving.pc = "while"
    /\ saving' = [saving EXCEPT
          !.files = saving.files \cup {saving.name},
          !.overwritten = saving.files \cap {saving.name},
          !.pc = "saved"]
    /\ UNCHANGED <<box, box_event, disp, menu, app>>
    /\ UNCHANGED <<hordevars, gifvars>>

\* the loop is left and frames[0].save(name, ...) writes the file
save_image ==
    /\ saving.pc = "while"
    /\ saving.name \notin saving.files
    /\ saving' = [saving EXCEPT
          !.files = saving.files \cup {saving.name},
          !.overwritten = saving.files \cap {saving.name},
          !.pc = "saved"]
    /\ UNCHANGED <<box, box_event, disp, menu, app>>
    /\ UNCHANGED <<hordevars, gifvars>>

\* save2gif returned, and the menu calls it again
save_again ==
    /\ saving.pc = "saved"
    /\ Cardinality(saving.files) < MaxFiles
    /\ \E n \in 1..MaxSpecies : saving' = Rendered(saving.files, n)
    /\ UNCHANGED <<box, box_event, disp, menu, app>>
    /\ UNCHANGED <<hordevars, gifvars>>

NextSaving ==
    \/ name_image
    \/ numerate_image
    \/ save_image
    \/ save_again

SpecSaving == InitSaving /\ [][NextSaving]_vars

\* save2gif runs on: nothing in the naming waits for the user
SpecSavingFair == SpecSaving /\ WF_vars(NextSaving)

\* ------------------------------------------------------------------- main()
\* the argument lists of the call of Horde in main() and display(): the call
\* as it is written, Horde(), and the call with the scheme the docstring of
\* Horde names as its default
DriverCtorArgs == {<<>>, <<"green-purple">>}

\* Horde(*args) raises TypeError unless it is given the color_type
HordeRaises(args) == Len(args) # 1

\* SIZE, BUTTON_WIDTH, BUTTON_HEIGHT and the rectangles of Live, Gif and Quit
SIZE == <<1280, 720>>
BUTTON_WIDTH == 240
BUTTON_HEIGHT == 100

button_rect(k) ==
    [x |-> (k * SIZE[1]) \div 4 - BUTTON_WIDTH \div 2,
     y |-> SIZE[2] \div 2 - BUTTON_HEIGHT \div 2,
     w |-> BUTTON_WIDTH, h |-> BUTTON_HEIGHT]

\* where pygame.mouse.get_pos() finds the pointer: the first pixel and the
\* middle of Live, the first pixel of Gif, the last pixel of Quit, just past
\* the right edge of Live, just below Quit, and the corner of the window
MenuPositions ==
    { <<200, 310>>, <<320, 360>>, <<520, 310>>, <<1079, 409>>, <<440, 310>>,
      <<840, 410>>, <<0, 0>> }

\* the events of the menu; a MOUSEMOTION is handled with the position
\* get_pos() returns
MenuEvents ==
    { [type |-> "QUIT"], [type |-> "KEYDOWN", key |-> "K_ESCAPE"],
      [type |-> "KEYDOWN", key |-> "K_5"],
      [type |-> "KEYDOWN", key |-> "K_RETURN"],
      [type |-> "MOUSEBUTTONDOWN", button |-> 1],
      [type |-> "MOUSEBUTTONDOWN", button |-> 3] }
    \cup { [type |-> "MOUSEMOTION", get_pos |-> pos] : pos \in MenuPositions }

\* buttons_state after a MOUSEMOTION with the pointer at pos
Hover(pos) ==
    IF collidepoint(button_rect(1), pos) THEN <<TRUE, FALSE, FALSE>>
    ELSE IF collidepoint(button_rect(2), pos) THEN <<FALSE, TRUE, FALSE>>
    ELSE IF collidepoint(button_rect(3), pos) THEN <<FALSE, FALSE, TRUE>>
    ELSE <<FALSE, FALSE, FALSE>>

\* main() up to its loop, with Horde(*args) at line 204
MainEntered(args) ==
    IF HordeRaises(args)
    THEN [pc |-> "raise", exc |-> "TypeError", result |-> "",
          running |-> TRUE, buttons_state |-> <<FALSE, FALSE, FALSE>>,
          event |-> [type |-> "none"], self |-> <<>>]
    ELSE [pc |-> "loop", exc |-> "", result |-> "",
          running |-> TRUE, buttons_state |-> <<FALSE, FALSE, FALSE>>,
          event |-> [type |-> "none"], self |-> <<>>]

\* one turn of "for event in pygame.event.get()" of main(); self keeps
\* running and buttons_state as the event found them
MenuEvent(m, event) ==
    LET quit == event.type = "QUIT"
                \/ (event.type = "KEYDOWN" /\ event.key = "K_ESCAPE")
        left == event.type = "MOUSEBUTTONDOWN" /\ event.button = 1
        seen == [m EXCEPT !.event = event,
                          !.self = [running |-> m.running,
                                    buttons_state |-> m.buttons_state]]
    IN  IF quit THEN [seen EXCEPT !.running = FALSE]
        ELSE IF left /\ m.buttons_state[1]
             THEN [seen EXCEPT !.pc = "return", !.result = "display"]
        ELSE IF left /\ m.buttons_state[2]
             THEN [seen EXCEPT !.pc = "return", !.result = "save2gif"]
        ELSE IF left /\ m.buttons_state[3]
             THEN [seen EXCEPT !.running = FALSE]
        ELSE IF event.type = "MOUSEMOTION"
             THEN [seen EXCEPT !.buttons_state = Hover(event.get_pos)]
        ELSE seen

\* the events of the batch are handled: the frame is drawn (the flock of the
\* menu is stepped and drawn, which touches the flock only) and the condition
\* of "while running" is tested
MenuFrame(m) ==
    LET drawn == [m EXCEPT !.event = [type |-> "flip"],
                           !.self = [running |-> m.running,
                                     buttons_state |-> m.buttons_state]]
    IN  IF m.running THEN drawn
        ELSE [drawn EXCEPT !.pc = "return", !.result = "None"]

\* main() is called
InitMenu ==
    /\ \E args \in DriverCtorArgs : menu = MainEntered(args)
    /\ box = [op |-> "none"]
    /\ box_event = [op |-> "none"]
    /\ saving = [op |-> "none"]
    /\ disp = [op |-> "none"]
    /\ app = [op |-> "none"]
    /\ NoHorde
    /\ NoGif

menu_event ==
    /\ menu.pc = "loop"
    /\ \E event \in MenuEvents : menu' = MenuEvent(menu, event)
    /\ UNCHANGED <<box, box_event, saving, disp, app>>
    /\ UNCHANGED <<hordevars, gifvars>>

menu_frame ==
    /\ menu.pc = "loop"
    /\ menu' = MenuFrame(menu)
    /\ UNCHANGED <<box, box_event, saving, disp, app>>
    /\ UNCHANGED <<hordevars, gifvars>>

NextMenu == menu_event \/ menu_frame

SpecMenu == InitMenu /\ [][NextMenu]_vars

\* ---------------------------------------------------------------- display()
SETTINGS_ICON_RECT == [x |-> 1810, y |-> 60, w |-> 50, h |-> 50]

\* the first two boxes of the list parameters
Parameters ==
    << InputBox(Number("0.02"), 1450, 120), InputBox(Number("20"), 1450, 220) >>

\* clicks of display(): event.pos and the position pygame.mouse.get_pos()
\* returns while the click is handled. The two agree on the first pixel of
\* the first box, the last pixel of the second, the settings icon, the panel
\* beside the boxes and the flock's area; in the last click the pointer has
\* moved from the first box to the icon since the button went down
DisplayClicks ==
    { [pos |-> <<1450, 120>>, get_pos |-> <<1450, 120>>, button |-> 1],
      [pos |-> <<1849, 269>>, get_pos |-> <<1849, 269>>, button |-> 1],
      [pos |-> <<1835, 85>>, get_pos |-> <<1835, 85>>, button |-> 1],
      [pos |-> <<1600, 180>>, get_pos |-> <<1600, 180>>, button |-> 1],
      [pos |-> <<700, 400>>, get_pos |-> <<700, 400>>, button |-> 1],
      [pos |-> <<1450, 120>>, get_pos |-> <<1450, 120>>, button |-> 3],
      [pos |-> <<1450, 120>>, get_pos |-> <<1835, 85>>, button |-> 1] }

\* the events of display(): the clicks, Enter, a digit, Escape (its
\* character written "^") and closing the window
DisplayEvents ==
    { [type |-> "MOUSEBUTTONDOWN", pos |-> c.pos, get_pos |-> c.get_pos,
       button |-> c.button] : c \in DisplayClicks }
    \cup { [type |-> "KEYDOWN", key |-> "K_RETURN", unicode |-> "\r"],
           [type |-> "KEYDOWN", key |-> "K_5", unicode |-> "5"],
           [type |-> "KEYDOWN", key |-> "K_ESCAPE", unicode |-> "^"],
           [type |-> "QUIT"] }

\* display() up to its loop, with Horde(*args) at line 59
DisplayEntered(args) ==
    IF HordeRaises(args)
    THEN [pc |-> "raise", exc |-> "TypeError", running |-> TRUE,
          settings |-> FALSE, parameters |-> <<>>,
          event |-> [type |-> "none"], self |-> <<>>]
    ELSE [pc |-> "loop", exc |-> "", running |-> TRUE,
          settings |-> FALSE, parameters |-> Parameters,
          event |-> [type |-> "none"], self |-> <<>>]

\* one turn of "for event in pygame.event.get()" of display(): the boxes are
\* given the event while the panel is open, then a left click on the icon
\* toggles the panel (a left click elsewhere adds boids to the flock); self
\* keeps settings and parameters as the event found them
DisplayEvent(d, event) ==
    LET quit == event.type = "QUIT"
                \/ (event.type = "KEYDOWN" /\ event.key = "K_ESCAPE")
        icon == /\ event.type = "MOUSEBUTTONDOWN"
                /\ event.button = 1
                /\ collidepoint(SETTINGS_ICON_RECT, event.get_pos)
    IN  [d EXCEPT
           !.running = IF quit THEN FALSE ELSE d.running,
           !.parameters =
               IF d.settings
               THEN [i \in DOMAIN d.parameters |->
                        HandleEvent(d.parameters[i], event)]
               ELSE d.parameters,
           !.settings = IF icon THEN ~d.settings ELSE d.settings,
           !.event = event,
           !.self = [settings |-> d.settings, parameters |-> d.parameters]]

\* the events of the batch are handled: the flock is stepped and drawn, with
\* the boxes when the panel is open, and "while running" is tested
DisplayFrame(d) ==
    LET drawn == [d EXCEPT !.event = [type |-> "flip"],
                           !.self = [settings |-> d.settings,
                                     parameters |-> d.parameters]]
    IN  IF d.running THEN drawn ELSE [drawn EXCEPT !.pc = "return"]

\* display() is called
InitDisplay ==
    /\ \E args \in DriverCtorArgs : disp = DisplayEntered(args)
    /\ box = [op |-> "none"]
    /\ box_event = [op |-> "none"]
    /\ saving = [op |-> "none"]
    /\ menu = [op |-> "none"]
    /\ app = [op |-> "none"]
    /\ NoHorde
    /\ NoGif

\* a key is typed into an open panel while the active box has room
display_event ==
    /\ disp.pc = "loop"
    /\ \E event \in DisplayEvents :
          /\ (event.type = "KEYDOWN" /\ event.key # "K_RETURN" /\ disp.settings)
             => \A i \in DOMAIN disp.parameters :
                   disp.parameters[i].active
                   => Len(disp.parameters[i].text) < MaxText
          /\ disp' = DisplayEvent(disp, event)
    /\ UNCHANGED <<box, box_event, saving, menu, app>>
    /\ UNCHANGED <<hordevars, gifvars>>

display_frame ==
    /\ disp.pc = "loop"
    /\ disp' = DisplayFrame(disp)
    /\ UNCHANGED <<box, box_event, saving, menu, app>>
    /\ UNCHANGED <<hordevars, gifvars>>

NextDisplay == display_event \/ display_frame

SpecDisplay == InitDisplay /\ [][NextDisplay]_vars

\* ----------------------------------------------------------------- __main__
\* main() is called by the loop of __main__; args is the argument list of
\* the calls of Horde in main() and display(), last the function that
\* returned last, got what get_user_settings returned to the last save2gif,
\* rendered whether that save2gif went on to render
InitApp ==
    /\ \E args \in DriverCtorArgs :
          /\ app = [pc |-> "main", temp |-> "", args |-> args,
                    last |-> "", got |-> "", rendered |-> FALSE]
          /\ menu = MainEntered(args)
    /\ box = [op |-> "none"]
    /\ box_event = [op |-> "none"]
    /\ saving = [op |-> "none"]
    /\ disp = [op |-> "none"]
    /\ NoHorde
    /\ NoGif

\* save2gif() is entered: get_user_settings starts from the defaults
SettingsEntered ==
    /\ settings' = settings_default
    /\ species' = <<specie_default>>
    /\ gif_frame' = [op |-> "get_user_settings"]
    /\ gif_pc' = "ask"
    /\ UNCHANGED <<horde, frame_num, specie_index, screen, frames>>

\* save2gif() is left: its locals are gone
SettingsLeft ==
    /\ settings' = [fps |-> 0, length_in_seconds |-> 0]
    /\ species' = <<>>
    /\ gif_frame' = [op |-> "none"]
    /\ gif_pc' = "none"
    /\ UNCHANGED <<horde, frame_num, specie_index, screen, frames>>

\* temp := main(): an exception of main() ends the process, None ends the
\* loop, "display" and "save2gif" call the function of that name
main_returns ==
    /\ app.pc = "main"
    /\ menu.pc \in {"return", "raise"}
    /\ menu' = [op |-> "none"]
    /\ IF menu.pc = "raise"
       THEN /\ app' = [app EXCEPT !.pc = "raise"]
            /\ UNCHANGED <<disp, gifvars>>
       ELSE IF menu.result = "None"
       THEN /\ app' = [app EXCEPT !.pc = "exit", !.temp = "None"]
            /\ UNCHANGED <<disp, gifvars>>
       ELSE IF menu.result = "display"
       THEN /\ app' = [app EXCEPT !.pc = "display", !.temp = "display"]
            /\ disp' = DisplayEntered(app.args)
            /\ UNCHANGED gifvars
       ELSE /\ app' = [app EXCEPT !.pc = "save2gif", !.temp = "save2gif"]
            /\ SettingsEntered
            /\ UNCHANGED disp
    /\ UNCHANGED <<box, box_event, saving>>
    /\ UNCHANGED hordevars

\* display() returns and main() is called again, or its exception ends the
\* process
display_returns ==
    /\ app.pc = "display"
    /\ disp.pc \in {"return", "raise"}
    /\ disp' = [op |-> "none"]
    /\ IF disp.pc = "raise"
       THEN /\ app' = [app EXCEPT !.pc = "raise"]
            /\ UNCHANGED menu
       ELSE /\ app' = [app EXCEPT !.pc = "main", !.last = "display"]
            /\ menu' = MainEntered(app.args)
    /\ UNCHANGED <<box, box_event, saving>>
    /\ UNCHANGED <<hordevars, gifvars>>

\* save2gif() returns at once when get_user_settings returned None, and
\* after rendering and saving when it returned the dictionaries; main() is
\* called again. An exception of get_user_settings ends the process
save2gif_returns ==
    /\ app.pc = "save2gif"
    /\ gif_pc \in {"return None", "return", "raise"}
    /\ SettingsLeft
    /\ IF gif_pc = "raise"
       THEN /\ app' = [app EXCEPT !.pc = "raise"]
            /\ UNCHANGED menu
       ELSE /\ app' = [app EXCEPT
                       !.pc = "main", !.last = "save2gif",
                       !.got = IF gif_pc = "return None" THEN "None"
                               ELSE "settings, species",
                       !.rendered = (gif_pc # "return None")]
            /\ menu' = MainEntered(app.args)
    /\ UNCHANGED <<box, box_event, saving, disp>>
    /\ UNCHANGED hordevars

NextApp ==
    \/ main_returns
    \/ display_returns
    \/ save2gif_returns
    \/ (app.pc = "main" /\ NextMenu)
    \/ (app.pc = "display" /\ NextDisplay)
    \/ (app.pc = "save2gif" /\ NextSettings)

SpecApp == InitApp /\ [][NextApp]_vars

\* ------------------------------------------------------------------ claims
\* the last call was update, and it has returned
Updated == frame.op = "update"

\* the indices of the boids the last update worked on
Boids == 1..Len(frame.positions)

\* C1: after update returns (left <= right, top <= bottom) every position lies
\* in the rectangle: left <= x <= right and top <= y <= bottom.  Stated for
\* the calls whose arguments satisfy ValidConfig.
C1_BoundaryInvariant ==
    (/\ Updated
     /\ ValidConfig(frame.cfg)
     /\ frame.cfg.edges[1] <= frame.cfg.edges[2]
     /\ frame.cfg.edges[3] <= frame.cfg.edges[4])
    => \A i \in 1..Len(positions) :
          /\ FLe(F(frame.cfg.edges[1]), positions[i][1])
          /\ FLe(positions[i][1], F(frame.cfg.edges[2]))
          /\ FLe(F(frame.cfg.edges[3]), positions[i][2])
          /\ FLe(positions[i][2], F(frame.cfg.edges[4]))

\* C2: with 0 <= bottom_speed <= top_speed, every boid whose velocity is not
\* zero at the rescaling stage has bottom_speed <= |velocity| <= top_speed
\* after update returns.  Stated for the calls whose arguments satisfy
\* ValidConfig, the speed compared within one grid step (the floating
\* tolerance of the rescaling).
C2_SpeedInvariant ==
    (Updated /\ ValidConfig(frame.cfg))
    => \A i \in 1..Len(velocities) :
          frame.v_edge[i] # VZero
          => /\ FLe(F(frame.cfg.bottom_speed - 1), Norm(velocities[i]))
             /\ FLe(Norm(velocities[i]), F(frame.cfg.top_speed + 1))

\* C3: a boid whose velocity is exactly zero at the rescaling stage, with
\* bottom_speed > 0, has a finite velocity and a finite position after the
\* step.
C3_ZeroVelocityFallback ==
    (Updated /\ ValidConfig(frame.cfg) /\ frame.cfg.bottom_speed > 0)
    => \A i \in 1..Len(velocities) :
          frame.v_edge[i] = VZero
          => VFinite(velocities[i]) /\ VFinite(positions[i])

\* C4: an update called with bottom_speed > top_speed fails fast: it leaves
\* positions, velocities and colors as they were, and no boid is rescaled for
\* the top limit and again for the bottom limit.
C4_MalformedConfigFailsFast ==
    (Updated /\ frame.cfg.bottom_speed > frame.cfg.top_speed)
    => /\ positions = frame.positions
       /\ velocities = frame.velocities
       /\ colors = frame.colors
       /\ \A i \in Boids :
             ~(/\ FGt(frame.speeds[i], F(frame.cfg.top_speed))
               /\ FLt(frame.speeds[i], F(frame.cfg.bottom_speed)))

\* C5: the four arrays always have the same length, the number of add_boid
\* calls made so far.
C5_ParallelArrays ==
    /\ Len(positions) = nAdded
    /\ Len(velocities) = nAdded
    /\ Len(sizes) = nAdded
    /\ Len(colors) = nAdded

\* three boids, one of them added after an update
C5_Witness == nAdded = 3 /\ nUpdates >= 1 /\ frame.op = "add_boid"

\* C6: update never changes the number of boids nor any size; add_boid leaves
\* every existing boid as it was and puts the new one last, with the given
\* position, velocity and size and the color (10, 150, 10).
C6_FrameEffects ==
    [][ /\ frame'.op = "update"
           => /\ Len(positions') = Len(positions)
              /\ Len(velocities') = Len(velocities)
              /\ Len(colors') = Len(colors)
              /\ sizes' = sizes
        /\ frame'.op = "add_boid"
           => /\ Len(positions') = Len(positions) + 1
              /\ SubSeq(positions', 1, Len(positions)) = positions
              /\ SubSeq(velocities', 1, Len(velocities)) = velocities
              /\ SubSeq(sizes', 1, Len(sizes)) = sizes
              /\ SubSeq(colors', 1, Len(colors)) = colors
              /\ positions'[Len(positions')] = frame'.position
              /\ velocities'[Len(velocities')] = frame'.velocity
              /\ sizes'[Len(sizes')] = frame'.size
              /\ colors'[Len(colors')] = <<10, 150, 10>>
      ]_vars

\* a boid added to a horde that already holds updated boids
C6_Witness ==
    /\ frame.op = "add_boid"
    /\ Len(positions) >= 2
    /\ nUpdates >= 1
    /\ colors[1] # <<10, 150, 10>>

\* C7: a horde of one boid with both distances > 0 has both counts equal to 1
\* and all three deltas zero, so the force stage leaves the velocity as it was.
\* Stated for the calls whose arguments satisfy ValidConfig.
C7_SelfInclusion ==
    (/\ Updated
     /\ Len(frame.positions) = 1
     /\ ValidConfig(frame.cfg))
    => /\ frame.separation_counters[1] = 1
       /\ frame.alignment_counters[1] = 1
       /\ frame.separation_change[1] = VZero
       /\ frame.alignment_change[1] = VZero
       /\ frame.cohesion_change[1] = VZero
       /\ frame.v_forces[1] = frame.velocities[1]

\* C8: j is in i's separation (alignment) set iff distance(i, j) is strictly
\* below separation_distance (alignment_distance): a boid at exactly the
\* threshold is left out; each counter is the size of its set, i itself
\* counted like any other boid; and membership is symmetric.
C8_StrictThresholds ==
    Updated
    => \A i \in Boids :
          /\ frame.separation_counters[i] = Cardinality(frame.separation_horde[i])
          /\ frame.alignment_counters[i] = Cardinality(frame.neighbors_horde[i])
          /\ \A j \in Boids :
                /\ j \in frame.separation_horde[i]
                   <=> FLt(frame.distances[i][j], F(frame.cfg.separation_distance))
                /\ j \in frame.neighbors_horde[i]
                   <=> FLt(frame.distances[i][j], F(frame.cfg.alignment_distance))
                /\ frame.distances[i][j] = F(frame.cfg.separation_distance)
                   => j \notin frame.separation_horde[i]
                /\ frame.distances[i][j] = F(frame.cfg.alignment_distance)
                   => j \notin frame.neighbors_horde[i]
                /\ j \in frame.separation_horde[i] <=> i \in frame.separation_horde[j]
                /\ j \in frame.neighbors_horde[i] <=> i \in frame.neighbors_horde[j]

\* two boids exactly alignment_distance apart: outside each other's alignment
\* set, inside each other's separation set
C8_Witness ==
    /\ Updated
    /\ \E i, j \in Boids :
          /\ i # j
          /\ frame.distances[i][j] = F(frame.cfg.alignment_distance)
          /\ j \notin frame.neighbors_horde[i]
          /\ j \in frame.separation_horde[i]
          /\ frame.alignment_counters[i] = 1
          /\ frame.separation_counters[i] = 2

\* C9: for all distances >= 0 every boid is in its own separation and
\* alignment set, so no mean is taken over an empty set and no delta is NaN.
C9_NoEmptyMean ==
    (/\ Updated
     /\ frame.cfg.separation_distance >= 0
     /\ frame.cfg.alignment_distance >= 0)
    => \A i \in Boids :
          /\ i \in frame.separation_horde[i]
          /\ i \in frame.neighbors_horde[i]
          /\ ~IsNaN(frame.alignment_change[i][1])
          /\ ~IsNaN(frame.alignment_change[i][2])
          /\ ~IsNaN(frame.cohesion_change[i][1])
          /\ ~IsNaN(frame.cohesion_change[i][2])

\* the offsets position_i - position_j to the other boids of i's separation
\* set, from the positions at the start of the step
Offsets(i) ==
    {VSub(frame.positions[i], frame.positions[j]) :
        j \in frame.separation_horde[i] \ {i}}

\* the sum of the c-th coordinates (grid units) of the start-of-step
\* positions of the boids in S
RECURSIVE CoordSum(_, _)
CoordSum(S, c) ==
    IF S = {} THEN 0
    ELSE LET j == CHOOSE x \in S : TRUE
         IN  frame.positions[j][c].n + CoordSum(S \ {j}, c)

\* C10: the separation delta of i is the sum over i's separation set of
\* position_i - position_j (start-of-step positions), not their mean: it is
\* |set| * position_i minus the sum of the set's positions, and when the k
\* other boids of the set all have the same offset, it is k times that offset.
C10_SeparationIsSum ==
    Updated
    => \A i \in Boids :
          /\ frame.separation_horde[i] \subseteq {i}
             => frame.separation_change[i] = VZero
          /\ frame.separation_horde[i] # {}
             => LET S == frame.separation_horde[i]
                    k == Cardinality(S)
                IN  frame.separation_change[i] =
                       <<F(k * frame.positions[i][1].n - CoordSum(S, 1)),
                         F(k * frame.positions[i][2].n - CoordSum(S, 2))>>
          /\ \A d \in Offsets(i) :
                Offsets(i) = {d}
                => LET k == Cardinality(frame.separation_horde[i] \ {i})
                   IN  frame.separation_change[i] = <<F(k * d[1].n), F(k * d[2].n)>>

\* a boid with two other boids in its separation set, both at the same
\* non-zero offset
C10_Witness ==
    /\ Updated
    /\ \E i \in Boids :
          /\ Cardinality(frame.separation_horde[i] \ {i}) = 2
          /\ \E d \in Offsets(i) : Offsets(i) = {d} /\ d # VZero

\* the sum of the rows of the boids in S
RECURSIVE SetSum(_, _)
SetSum(S, rows) ==
    IF S = {} THEN VZero
    ELSE LET j == CHOOSE x \in S : TRUE
         IN  VAdd(rows[j], SetSum(S \ {j}, rows))

\* the mean of the rows of the boids in S (S not empty), rounded to the grid
SetMean(S, rows) ==
    LET s == SetSum(S, rows)
        k == Cardinality(S)
    IN  <<IF s[1].fin THEN F(RoundDiv(s[1].n, k)) ELSE s[1],
          IF s[2].fin THEN F(RoundDiv(s[2].n, k)) ELSE s[2]>>

\* the boids strictly closer to i than alignment_distance, i itself among
\* them when its own distance is
AlignmentSet(i) ==
    {j \in Boids : FLt(frame.distances[i][j], F(frame.cfg.alignment_distance))}

\* C11: the alignment delta of i is the mean of the start-of-step velocities
\* over i's alignment set minus velocity_i, and the cohesion delta is the mean
\* of the start-of-step positions over the same alignment set (not the
\* separation set) minus position_i; i itself is part of both means.
C11_AlignmentCohesionMeans ==
    Updated
    => \A i \in Boids :
          AlignmentSet(i) # {}
          => /\ frame.alignment_change[i] =
                   VSub(SetMean(AlignmentSet(i), frame.velocities), frame.velocities[i])
             /\ frame.cohesion_change[i] =
                   VSub(SetMean(AlignmentSet(i), frame.positions), frame.positions[i])

\* a boid whose alignment set holds itself and another boid but not all of
\* its separation set, with non-zero alignment and cohesion deltas
C11_Witness ==
    /\ Updated
    /\ \E i \in Boids :
          /\ i \in AlignmentSet(i)
          /\ Cardinality(AlignmentSet(i)) >= 2
          /\ AlignmentSet(i) # frame.separation_horde[i]
          /\ VFinite(frame.alignment_change[i])
          /\ frame.alignment_change[i] # VZero
          /\ VFinite(frame.cohesion_change[i])
          /\ frame.cohesion_change[i] # VZero

\* C12: update is synchronous.  The three deltas of every boid come from the
\* positions and velocities all boids had at the start of the step; then
\* every velocity becomes velocity + sep * separation_factor
\* + ali * alignment_factor + coh * cohesion_factor; and only then every
\* position becomes position + the new velocity.
C12_SynchronousUpdate ==
    Updated
    => \A i \in Boids :
          /\ frame.separation_change[i] =
                SetSum(frame.separation_horde[i],
                       [j \in Boids |-> VSub(frame.positions[i], frame.positions[j])])
          /\ frame.neighbors_horde[i] # {}
             => /\ frame.alignment_change[i] =
                      VSub(SetMean(frame.neighbors_horde[i], frame.velocities),
                           frame.velocities[i])
                /\ frame.cohesion_change[i] =
                      VSub(SetMean(frame.neighbors_horde[i], frame.positions),
                           frame.positions[i])
          /\ frame.v_forces[i] =
                VAdd(frame.velocities[i],
                     VAdd(VAdd(VScale(frame.separation_change[i],
                                      F(frame.cfg.separation_factor)),
                               VScale(frame.alignment_change[i],
                                      F(frame.cfg.alignment_factor))),
                          VScale(frame.cohesion_change[i],
                                 F(frame.cfg.cohesion_factor))))
          /\ frame.p_moved[i] = VAdd(frame.positions[i], frame.v_forces[i])

\* two boids in each other's alignment set whose velocities both change in
\* the force stage
C12_Witness ==
    /\ Updated
    /\ \E i, j \in Boids :
          /\ i < j
          /\ j \in frame.neighbors_horde[i]
          /\ VFinite(frame.v_forces[i])
          /\ VFinite(frame.v_forces[j])
          /\ frame.v_forces[i] # frame.velocities[i]
          /\ frame.v_forces[j] # frame.velocities[j]
          /\ frame.p_moved[i] # frame.positions[i]

\* C13: in a horde of two boids whose distance d satisfies
\* alignment_distance <= d < separation_distance, both boids have zero
\* alignment and cohesion deltas, and their separation deltas are opposite:
\* delta_1 = position_1 - position_2 = -delta_2.
C13_SeparationDominance ==
    (/\ Updated
     /\ Len(frame.positions) = 2
     /\ FLe(F(frame.cfg.alignment_distance), frame.distances[1][2])
     /\ FLt(frame.distances[1][2], F(frame.cfg.separation_distance)))
    => /\ frame.alignment_change[1] = VZero
       /\ frame.alignment_change[2] = VZero
       /\ frame.cohesion_change[1] = VZero
       /\ frame.cohesion_change[2] = VZero
       /\ frame.separation_change[1] = VSub(frame.positions[1], frame.positions[2])
       /\ frame.separation_change[2] = VSub(frame.positions[2], frame.positions[1])
       /\ frame.separation_change[1] =
             <<FNeg(frame.separation_change[2][1]), FNeg(frame.separation_change[2][2])>>

\* C14: with boids at (0, 0) and (10, 0), velocities (1, 0) and (-1, 0),
\* both distances 20, factors 0.1 / 0.5 / 0.1, no edge force, top_speed 100
\* and bottom_speed 0, one update computes separation deltas (-10, 0) and
\* (10, 0), alignment deltas (-1, 0) and (1, 0), cohesion deltas (5, 0) and
\* (-5, 0); the resulting velocities are v + 0.1*sep + 0.5*ali + 0.1*coh =
\* (0, 0) for both boids and the positions are p + v = (0, 0) and (10, 0).
C14_Start ==
    /\ Updated
    /\ frame.cfg = ScenarioConfig
    /\ frame.positions = <<Vec(0, 0), Vec(100, 0)>>
    /\ frame.velocities = <<Vec(10, 0), Vec(-10, 0)>>

C14_Scenario ==
    C14_Start =>
        /\ frame.separation_change = <<Vec(-100, 0), Vec(100, 0)>>
        /\ frame.alignment_change = <<Vec(-10, 0), Vec(10, 0)>>
        /\ frame.cohesion_change = <<Vec(50, 0), Vec(-50, 0)>>
        /\ velocities = <<Vec(0, 0), Vec(0, 0)>>
        /\ positions = <<Vec(0, 0), Vec(100, 0)>>

C14_Witness == C14_Start /\ velocities = <<Vec(0, 0), Vec(0, 0)>>

\* the two edges of axis a (1 = x: left, right; 2 = y: top, bottom)
EdgeLo(a) == frame.cfg.edges[2 * a - 1]
EdgeHi(a) == frame.cfg.edges[2 * a]

\* the integrated, unclamped coordinate of boid i on axis a is strictly within
\* the margin of the low / high edge of that axis
NearLo(i, a) == FLt(frame.p_moved[i][a], F(EdgeLo(a) + frame.cfg.margin))
NearHi(i, a) == FGt(frame.p_moved[i][a], F(EdgeHi(a) - frame.cfg.margin))

\* edge_factor * penetration depth at the low / high edge, 0 when not near it
NudgeLo(i, a) ==
    IF NearLo(i, a)
    THEN FMul(F(frame.cfg.edge_factor),
              FSub(F(EdgeLo(a) + frame.cfg.margin), frame.p_moved[i][a]))
    ELSE F(0)
NudgeHi(i, a) ==
    IF NearHi(i, a)
    THEN FMul(F(frame.cfg.edge_factor),
              FSub(frame.p_moved[i][a], F(EdgeHi(a) - frame.cfg.margin)))
    ELSE F(0)

\* C15: the edge force changes only velocities.  For every boid and each axis
\* separately: a coordinate (after integration, before the clamp) strictly
\* within the margin of an edge changes the velocity component of that axis by
\* edge_factor * penetration depth toward the interior (up at the low edge,
\* down at the high edge); a coordinate within no margin leaves the component
\* unchanged; the positions returned are the clamp of the integrated
\* positions, whatever the nudges were.
C15_EdgeForce ==
    Updated =>
        /\ positions = EdgeBlock(frame.p_moved, frame.cfg)
        /\ \A i \in Boids : \A a \in {1, 2} :
              /\ (~NearLo(i, a) /\ ~NearHi(i, a))
                    => frame.v_edge[i][a] = frame.v_forces[i][a]
              /\ (IsFinite(frame.p_moved[i][a]) /\ IsFinite(frame.v_forces[i][a]))
                    => /\ frame.v_edge[i][a] =
                             FSub(FAdd(frame.v_forces[i][a], NudgeLo(i, a)),
                                  NudgeHi(i, a))
                       /\ NudgeLo(i, a).n >= 0
                       /\ NudgeHi(i, a).n >= 0

\* a boid in a corner got a nudge on both axes, and another boid got none
C15_Witness ==
    /\ Updated
    /\ \E i \in Boids :
          /\ VFinite(frame.p_moved[i]) /\ VFinite(frame.v_forces[i])
          /\ NearHi(i, 1) /\ NearLo(i, 2)
          /\ frame.v_edge[i][1].n < frame.v_forces[i][1].n
          /\ frame.v_edge[i][2].n > frame.v_forces[i][2].n
    /\ \E j \in Boids :
          /\ VFinite(frame.p_moved[j])
          /\ \A a \in {1, 2} : ~NearLo(j, a) /\ ~NearHi(j, a)
          /\ frame.v_edge[j] = frame.v_forces[j]

\* update raised out of its color stage
RaisedInUpdate == frame.op = "raise" /\ frame.call = "update"

\* a finite coordinate x clamped into lo..hi
Clamped(x, lo, hi) ==
    IF x.n < lo THEN F(lo) ELSE IF x.n > hi THEN F(hi) ELSE x

\* C16: the stages of one update run in the order deltas, velocity update,
\* integration, color update, edge nudge, clamp, speed limits.  The positions
\* are integrated with the velocity the rules produced (before nudge and
\* limits); the nudge is computed from the integrated, unclamped coordinate;
\* the position returned is the clamp of that coordinate; the speeds the
\* limits use are those of the nudged velocity, and a velocity within the
\* limits is returned as nudged.  An update that raises in its color stage
\* has integrated the positions and has neither nudged, clamped nor limited.
C16_StageOrder ==
    /\ Updated =>
         \A i \in Boids :
            /\ frame.p_moved[i] = VAdd(frame.positions[i], frame.v_forces[i])
            /\ frame.speeds[i] = Norm(frame.v_edge[i])
            /\ (/\ ~FGt(frame.speeds[i], F(frame.cfg.top_speed))
                /\ ~FLt(frame.speeds[i], F(frame.cfg.bottom_speed)))
                  => velocities[i] = frame.v_edge[i]
            /\ FGt(frame.speeds[i], F(frame.cfg.top_speed))
                  => velocities[i] # frame.v_edge[i]
            /\ \A a \in {1, 2} :
                  (IsFinite(frame.p_moved[i][a]) /\ IsFinite(frame.v_forces[i][a]))
                     => /\ frame.v_edge[i][a] =
                              FSub(FAdd(frame.v_forces[i][a], NudgeLo(i, a)),
                                   NudgeHi(i, a))
                        /\ positions[i][a] =
                              Clamped(frame.p_moved[i][a], EdgeLo(a), EdgeHi(a))
    /\ RaisedInUpdate =>
         /\ positions = frame.p_moved
         /\ velocities = frame.v_forces
         /\ \A i \in Boids :
               frame.p_moved[i] = VAdd(frame.positions[i], frame.v_forces[i])

\* a boid was integrated to a point outside the rectangle, nudged from that
\* point, clamped, and then slowed down to top_speed
C16_Witness ==
    /\ Updated
    /\ \E i \in Boids :
          /\ VFinite(frame.p_moved[i]) /\ VFinite(velocities[i])
          /\ frame.p_moved[i] # frame.positions[i]
          /\ positions[i] # frame.p_moved[i]
          /\ frame.v_edge[i] # frame.v_forces[i]
          /\ FGt(frame.speeds[i], F(frame.cfg.top_speed))
          /\ velocities[i] # frame.v_edge[i]

\* the last call recolored the flock and returned
Recolored == frame.op \in {"update", "_update_colors"}

\* clip(k, 0, 255)
ClipByte(k) == IF k < 0 THEN 0 ELSE IF k > 255 THEN 255 ELSE k

\* the table of the count-driven schemes: the color for an alignment count
\* ali and a separation count sep
TableColor(scheme, ali, sep) ==
    IF scheme = "green-purple"
    THEN <<ClipByte(16 * sep), ClipByte(255 - 2 * ali),
           255 - ClipByte(255 - 2 * ali)>>
    ELSE IF scheme = "purple-green"
    THEN <<ClipByte(255 - 16 * sep), ClipByte(2 * ali), ClipByte(2 * ali)>>
    ELSE <<ClipByte(32 * ali), ClipByte(32 * ali), ClipByte(32 * ali)>>

CountDriven == {"green-purple", "purple-green", "black&white"}

\* C17: under green-purple, purple-green and black&white every boid's color
\* after a recoloring is the table formula of its scheme applied to the counts
\* of that call, which in update are the sizes of the boid's two neighbour
\* sets of that step; every component lies in 0..255.
C17_ColorTable ==
    (Recolored /\ color \in CountDriven) =>
        \A i \in 1..Len(colors) :
            /\ colors[i] = TableColor(color, frame.alignment_counters[i],
                                      frame.separation_counters[i])
            /\ \A k \in 1..3 : colors[i][k] \in 0..255
            /\ Updated =>
                 /\ frame.alignment_counters[i] =
                        Cardinality(frame.neighbors_horde[i])
                 /\ frame.separation_counters[i] =
                        Cardinality(frame.separation_horde[i])

\* an update under purple-green gave a boid that has a neighbour besides
\* itself the color of the table, different from the color it had
C17_Witness ==
    /\ Updated
    /\ color = "purple-green"
    /\ \E i \in Boids :
          /\ i \in frame.neighbors_horde[i]
          /\ frame.alignment_counters[i] >= 2
          /\ colors[i] = <<255 - 16 * frame.separation_counters[i],
                           2 * frame.alignment_counters[i],
                           2 * frame.alignment_counters[i]>>
          /\ colors[i] # frame.colors[i]

\* the schemes whose string is one of the documented forms
ValidSchemes == CountDriven \cup {"const 10 20 30"}

\* boids i and j were given the same two counts by the last recoloring
SameCounts(i, j) ==
    /\ frame.alignment_counters[i] = frame.alignment_counters[j]
    /\ frame.separation_counters[i] = frame.separation_counters[j]

\* in the state: two boids recolored with equal counts have equal colors,
\* whatever colors they had before, and under "const 10 20 30" every boid is
\* (10, 20, 30)
C18_SameCountsSameColor ==
    (Recolored /\ color \in ValidSchemes) =>
        /\ \A i, j \in 1..Len(colors) : SameCounts(i, j) => colors[i] = colors[j]
        /\ color = "const 10 20 30" =>
              \A i \in 1..Len(colors) : colors[i] = <<10, 20, 30>>

\* in a step: a boid that two consecutive recolorings give the same counts
\* has the same color after both, whatever moved in between
C18_SameCountsSameColorNext ==
    (/\ Recolored /\ Recolored'
     /\ color \in ValidSchemes
     /\ Len(colors') = Len(colors))
    => \A i \in 1..Len(colors) :
          (/\ frame'.alignment_counters[i] = frame.alignment_counters[i]
           /\ frame'.separation_counters[i] = frame.separation_counters[i])
          => colors'[i] = colors[i]

\* C18: for a fixed scheme the colors are a function of the counts alone: two
\* recolorings with identical counts give identical colors regardless of the
\* colors, positions and velocities held before, and a valid const scheme
\* gives (R, G, B) whatever the counts.
C18_ColorDeterminism ==
    /\ []C18_SameCountsSameColor
    /\ [][C18_SameCountsSameColorNext]_vars

\* two boids that had different colors were recolored with equal counts and
\* now have the same color
C18_Witness ==
    /\ Recolored
    /\ color \in CountDriven
    /\ \E i, j \in 1..Len(colors) :
          /\ SameCounts(i, j)
          /\ frame.colors[i] # frame.colors[j]
          /\ colors[i] = colors[j]

\* component k of the const scheme c is invalid: missing, not an integer, or
\* outside 0..255
InvalidComponent(c, k) ==
    \/ k > Len(ConstWords(c))
    \/ ~IsInt(ConstWords(c)[k])
    \/ ~InByte(IntOf(ConstWords(c)[k]))

\* C19: a Horde constructed with a const scheme that has an invalid component
\* never raises from a recoloring, and after every recoloring the invalid
\* component of every boid's color is 0.
C19_InvalidConstClamped ==
    (StartsWith(color, "const") /\ \E k \in 1..3 : InvalidComponent(color, k)) =>
        /\ frame.op # "raise"
        /\ Recolored =>
              \A i \in 1..Len(colors) : \A k \in 1..3 :
                  InvalidComponent(color, k) => colors[i][k] = 0

\* C20: a Horde constructed without naming a scheme exists and uses
\* green-purple: the constructor call with no argument does not raise, and the
\* Horde it returns has the scheme green-purple.
C20_DefaultScheme ==
    /\ (frame.op = "raise" /\ frame.call = "__init__") => Len(frame.args) # 0
    /\ (frame.op = "__init__" /\ Len(frame.args) = 0) => color = "green-purple"

\* boid a of species k and boid b of species j were closer than the
\* separation or the alignment distance of species k before the last update
CloseAcross(k, a, j, b) ==
    LET d == Norm(VSub(gif_frame.horde[k].subhorde.positions[a],
                       gif_frame.horde[j].subhorde.positions[b]))
    IN  \/ FLt(d, F(gif_frame.horde[k].update_params.separation_distance))
        \/ FLt(d, F(gif_frame.horde[k].update_params.alignment_distance))

\* C21: species never interact.  An update of one species leaves the arrays
\* and the parameters of every other species as they were and gives the
\* species the state its own update computes from its own arrays; populating
\* a new species leaves the species made before it as they were.
C21_SpeciesIsolated ==
    /\ gif_frame.op = "update" =>
          /\ Len(horde) = Len(gif_frame.horde)
          /\ \A j \in 1..Len(horde) :
                IF j = gif_frame.specie
                THEN horde[j].subhorde =
                        HordeStep(gif_frame.horde[j].subhorde,
                                  gif_frame.horde[j].update_params)
                ELSE horde[j] = gif_frame.horde[j]
    /\ gif_frame.op = "append" =>
          /\ Len(horde) = Len(gif_frame.horde) + 1
          /\ \A j \in 1..Len(gif_frame.horde) : horde[j] = gif_frame.horde[j]

\* a species was updated while a boid of another species was within its
\* distances: it moved, the other species did not
C21_Witness ==
    /\ gif_frame.op = "update"
    /\ \E j \in 1..Len(horde) :
          /\ j # gif_frame.specie
          /\ \E a \in 1..Len(horde[gif_frame.specie].subhorde.positions) :
             \E b \in 1..Len(horde[j].subhorde.positions) :
                CloseAcross(gif_frame.specie, a, j, b)
          /\ horde[j] = gif_frame.horde[j]
          /\ horde[gif_frame.specie].subhorde.positions #
                gif_frame.horde[gif_frame.specie].subhorde.positions

\* what a frame shows: every species once, in the order of the list species,
\* each drawn with the parameter tuple made from its dictionary
FrameInOrder(f) ==
    /\ Len(f) = Len(species)
    /\ \A j \in 1..Len(f) :
          /\ f[j].specie = j
          /\ f[j].update_params = UpdateParams(species[j])

\* C22: the rendering loop produces exactly fps * length_in_seconds frames.
\* Every frame shows every species once, in list order, each drawn in the
\* state its own update left, with the same parameter tuple in every frame;
\* a frame just captured shows every species exactly one update after the
\* frame before it; the screen is captured only after the last species was
\* updated and drawn.
C22_RenderingLoop ==
    /\ Len(frames) <= settings.fps * settings.length_in_seconds
    /\ gif_pc = "rendered" =>
          /\ Len(frames) = settings.fps * settings.length_in_seconds
          /\ \A j \in 1..Len(horde) :
                horde[j].subhorde = frames[Len(frames)][j].drawn
    /\ \A n \in 1..Len(frames) : FrameInOrder(frames[n])
    /\ (gif_frame.op = "frames.append" /\ Len(frames) > 1) =>
          \A j \in 1..Len(species) :
              frames[Len(frames)][j].drawn =
                  HordeStep(frames[Len(frames) - 1][j].drawn,
                            UpdateParams(species[j]))
    /\ gif_pc = "species" =>
          /\ Len(screen) = specie_index - 1
          /\ \A j \in 1..Len(screen) :
                /\ screen[j].specie = j
                /\ screen[j].drawn = horde[j].subhorde
    /\ gif_frame.op = "frames.append" => frames[Len(frames)] = screen

\* the loop has ended after 2 * 2 frames of two species, which moved
C22_Witness ==
    /\ gif_pc = "rendered"
    /\ settings.fps = 2 /\ settings.length_in_seconds = 2
    /\ Len(species) = 2
    /\ Len(frames) = 4
    /\ frames[4][1].drawn.positions # frames[3][1].drawn.positions

\* the constraints the update relies on, for one species dictionary
ValidSpecie(specie) ==
    /\ specie.separation_factor >= 0
    /\ specie.alignment_factor >= 0
    /\ specie.cohesion_factor >= 0
    /\ specie.edge_factor >= 0
    /\ specie.separation_distance > 0
    /\ specie.alignment_distance > 0
    /\ specie.boid_min_speed <= specie.boid_max_speed

\* C23: every species dictionary get_user_settings returns has factors >= 0,
\* distances > 0 and boid_min_speed <= boid_max_speed.
C23_ReturnedSpeciesValid ==
    gif_pc = "return" => \A i \in 1..Len(species) : ValidSpecie(species[i])

\* the answers of the last [C] to the two resolution prompts
HeightInvalid ==
    /\ gif_frame.op = "input_settings"
    /\ gif_frame.input_value_h # ""
    /\ ~(IsInt(gif_frame.input_value_h) /\ IntOf(gif_frame.input_value_h) >= 100)

WidthEntered ==
    IF gif_frame.input_value_w = "" THEN gif_frame.resolution[1]
    ELSE IF IsInt(gif_frame.input_value_w) /\ IntOf(gif_frame.input_value_w) >= 100
         THEN IntOf(gif_frame.input_value_w)
         ELSE settings_default.resolution[1]

\* C30: while get_user_settings asks and when it returns, species holds
\* settings["number_of_species"] dictionaries, at least one; and a [C] with an
\* invalid height leaves the default height and the width as entered.
C30_SpeciesCountAndHeight ==
    /\ gif_pc \in {"ask", "return"} =>
          /\ Len(species) = settings.number_of_species
          /\ settings.number_of_species >= 1
    /\ HeightInvalid =>
          /\ settings.resolution[2] = settings_default.resolution[2]
          /\ settings.resolution[1] = WidthEntered

\* the last call of handle_event, the event it was given and the box before
Handled == box_event.op = "handle_event"

EnterWhileActive ==
    /\ Handled
    /\ box_event.event.type = "KEYDOWN"
    /\ box_event.event.key = "K_RETURN"
    /\ box_event.self.active

\* C24: Enter while active takes the text when it parses as a number (val is
\* that number, the box is inactive) and otherwise leaves val and sets text
\* to str(val); every other event leaves val, and a key while the box is
\* inactive leaves text too.
C24_EnterValidates ==
    Handled =>
       /\ (EnterWhileActive /\ IsFloat(box_event.self.text)) =>
             /\ box.val = [type |-> "float",
                           n |-> FloatAt(box_event.self.text, Places)]
             /\ ~box.active
       /\ (EnterWhileActive /\ ~IsFloat(box_event.self.text)) =>
             /\ box.val = box_event.self.val
             /\ box.text = Str(box_event.self.val)
       /\ ~EnterWhileActive => box.val = box_event.self.val
       /\ (box_event.event.type = "KEYDOWN" /\ ~box_event.self.active) =>
             box.text = box_event.self.text

\* Enter rejected a text after an earlier Enter had taken a number: the text
\* shown is that number again
C24_Witness ==
    /\ EnterWhileActive
    /\ ~IsFloat(box_event.self.text)
    /\ box.val.type = "float"
    /\ box.val # Number("0.02")
    /\ box.text = Str(box.val)
    /\ box.text # box_event.self.text

LeftClick ==
    /\ Handled
    /\ box_event.event.type = "MOUSEBUTTONDOWN"
    /\ box_event.event.button = 1

\* C25: a left click inside the rectangle toggles active and one outside
\* clears it; after every event the color is the active color exactly when
\* the box is active, and the inactive color otherwise.
C25_ClickTogglesColorFollows ==
    /\ (LeftClick /\ collidepoint(box.rect, box_event.event.pos)) =>
          box.active = ~box_event.self.active
    /\ (LeftClick /\ ~collidepoint(box.rect, box_event.event.pos)) =>
          ~box.active
    /\ box.color = box.a_color <=> box.active
    /\ box.color = IF box.active THEN box.a_color ELSE box.i_color

\* a left click inside the box made it active, and it shows the active color
C25_Witness ==
    /\ LeftClick
    /\ collidepoint(box.rect, box_event.event.pos)
    /\ ~box_event.self.active
    /\ box.active
    /\ box.color = <<10, 10, 200>>

\* the name passed to save() is the first name, or the enumerated name of
\* the suffix tried last
NameChosen ==
    \/ /\ saving.counter = 1
       /\ saving.name = FirstName(saving.boids_total, saving.number_of_species,
                                  saving.length_in_seconds)
    \/ /\ saving.counter > 1
       /\ saving.name = EnumeratedName(saving.boids_total,
                                       saving.length_in_seconds,
                                       saving.counter - 1)

\* C27: the name save() is given is one no file had when it was chosen, so
\* no animation is overwritten and none disappears; the suffixes are tried
\* in the order (1), (2), ...; and with finitely many files the naming ends
\* with the file saved.
C27_NeverOverwrites ==
    /\ [](saving.pc = "saved" => (saving.overwritten = {} /\ NameChosen))
    /\ [][saving.files \subseteq saving'.files]_vars
    /\ [][(saving.pc = "while" /\ saving'.pc = "while")
             => saving'.counter = saving.counter + 1]_vars
    /\ [](saving.pc = "name" => <>(saving.pc = "saved"))

\* the first name and the suffixes (1) and (2) were taken: the animation was
\* saved under the suffix (3)
C27_Witness ==
    /\ saving.pc = "saved"
    /\ saving.counter = 4
    /\ saving.name = EnumeratedName(saving.boids_total, saving.length_in_seconds, 3)
    /\ Cardinality(saving.files) = 4

\* the event main() handled last was a left click
MenuLeftClick ==
    menu.event.type = "MOUSEBUTTONDOWN" /\ menu.event.button = 1

\* the user has asked to quit: running is False
QuitAsked == ~menu.running

\* C26: main() returns (it does not raise); it returns "display" only on a
\* left click with Live hovered and "save2gif" only on a left click with Gif
\* hovered; once the user has quit it returns nothing but None; at most one
\* button is hovered; a left click with no button hovered neither returns
\* nor stops the loop.
C26_MenuResult ==
    /\ menu.pc # "raise"
    /\ (menu.pc = "return" /\ menu.result = "display") =>
          MenuLeftClick /\ menu.self.buttons_state[1]
    /\ (menu.pc = "return" /\ menu.result = "save2gif") =>
          MenuLeftClick /\ menu.self.buttons_state[2]
    /\ (menu.pc = "return" /\ QuitAsked) => menu.result = "None"
    /\ (menu.pc = "return" /\ menu.result = "None") => QuitAsked
    /\ Cardinality({k \in 1..3 : menu.buttons_state[k]}) <= 1
    /\ (MenuLeftClick /\ menu.self.buttons_state = <<FALSE, FALSE, FALSE>>) =>
          /\ menu.pc = "loop"
          /\ menu.running = menu.self.running

\* a box of display() is active
SomeBoxActive == \E i \in DOMAIN disp.parameters : disp.parameters[i].active

\* C29: display() reaches its loop (it does not raise); whenever the panel is
\* closed no box is active; a key handled while the panel is closed changes
\* no box; and the click on the icon that closes the panel leaves no box
\* active.
C29_ClosedPanelInactive ==
    /\ disp.pc # "raise"
    /\ disp.pc = "loop" =>
          /\ ~disp.settings => ~SomeBoxActive
          /\ (disp.event.type = "KEYDOWN" /\ ~disp.self.settings) =>
                disp.parameters = disp.self.parameters
          /\ (disp.event.type = "MOUSEBUTTONDOWN" /\ disp.self.settings
                /\ ~disp.settings) => ~SomeBoxActive

\* C28: the process ends only when main() returned None, never with an
\* exception; display() and save2gif() run only after main() returned their
\* name, and when they are left main() is called again; a save2gif() whose
\* get_user_settings returned None has not rendered.
C28_BackToMenu ==
    /\ app.pc # "raise"
    /\ app.pc = "exit" => app.temp = "None"
    /\ app.pc \in {"display", "save2gif"} => app.temp = app.pc
    /\ app.pc = "main" => menu.pc # "none"
    /\ (app.last = "save2gif" /\ app.got = "None") => ~app.rendered

====
